---- MODULE Spec2Model ----
(***************************************************************************)
(* Verification model of the topology-aware collective research code:      *)
(* the measurement harness, timer and statistics                           *)
(* (performance_measurement.cpp), the collective algorithms exercised by   *)
(* the correctness tests and their oracles, and the fat-tree and torus     *)
(* network scenarios.                                                      *)
(***************************************************************************)
EXTENDS Integers, Sequences, FiniteSets, TLC

(***************************************************************************)
(* Bounds of the model.                                                    *)
(***************************************************************************)
\* largest process group of the measurement harness
MaxN == 3
\* largest `iterations` argument (iterations_ of the all-to-all pass is scaled to it)
MaxIters == 2
\* warmup_iterations_ (100 for latency, 5 for bandwidth), scaled down
WarmupIters == 2
\* measured bandwidth / latency values are abstracted to 0..MaxBw
MaxBw == 2
\* the steady clock of the timer runs from 1 to MaxClock microseconds
MaxClock == 3
\* number of start / stop / reset calls made on one timer
MaxCalls == 5
\* largest number of samples held by a StatisticalAnalyzer
MaxSamples == 6
\* largest --k of the fat-tree command line
MaxK == 6
\* largest --x, --y, --z of the torus command line
MaxDim == 3
\* largest world size of the correctness tests
MaxWorld == 3
\* largest buffer size of a correctness test (the test sizes 1, 16, 256, 4096 scaled down)
MaxSize == 2

VARIABLES
    N,          \* world size of comm_
    fn,         \* which measurement every rank calls
    iters,      \* `iterations` argument (iterations_ for all-to-all)
    eager,      \* TRUE: MPI_Send buffers and returns; FALSE: it blocks until received
    cur,        \* cur[r] = <<src_rank, dst_rank>> of the point-to-point call rank r is in
    pc,         \* control location of each rank
    it,         \* loop counter i of each rank
    todo,       \* operations left in the body of the current loop iteration
    chan,       \* chan[s][d]: messages sent by s to d (tag 0), not yet received
    inBarrier,  \* ranks blocked in MPI_Barrier(comm_)
    result,     \* value returned by the point-to-point call
    matrix,     \* bandwidth_matrix of each rank
    sentCnt,    \* number of MPI_Send calls issued by each rank
    recvCnt,    \* number of MPI_Recv calls completed by each rank
    barCnt,     \* number of MPI_Barrier calls entered by each rank
    calls,      \* pairs for which the rank invoked the point-to-point measurement
    recvLog     \* every message a rank received and the iteration it was received in

VARIABLES
    call,       \* descriptor of the collective call every rank makes
    alg,        \* algorithm the optimizer dispatched to ("none" before the decision)
    phases,     \* phases of the algorithm still to run
    step,       \* round of the current phase
    order,      \* chain / ring order the optimizer computed for the algorithm
    sendbuf,    \* sendbuf of every rank at the call (for a broadcast: its buffer)
    buf         \* recvbuf of every rank (for a broadcast: its buffer)

VARIABLES
    timings_,           \* PerformanceTimer::timings_, in thousandths of a millisecond
    current_section_,   \* PerformanceTimer::current_section_ ("" when cleared)
    start_time_,        \* PerformanceTimer::start_time_, microseconds since the epoch
    clock,              \* high_resolution_clock::now(), microseconds since the epoch
    open,               \* the start(name) call no stop() or reset() has followed yet
    pairSum,            \* per section, the elapsed time of its start/stop pairs since reset
    tcalls,             \* number of calls made on the timer so far
    lastCall            \* the last call on the timer: its name, its section, the section
                        \* that was active when that section was started, the value returned

VARIABLES
    samples_,   \* StatisticalAnalyzer::samples_
    lastOp      \* the last call on the analyzer: its name, threshold, samples_ before
                \* the call, boolean result, returned vector, the result of the
                \* call before it when that was remove_outliers with the same threshold,
                \* and the returned number

VARIABLES
    scen,       \* which scenario program runs: "fat_tree" or "torus"
    args,       \* values parsed from its command line
    nstage,     \* how far main / RunSimulation has come
    shape,      \* the members the scenario's constructor set
    created,    \* number of nodes in each NodeContainer
    li,         \* iterations of the link loops executed so far
    m_links,    \* m_links, in creation order
    placed,     \* coordinate tuples visited by the loops with the node index computed
    addressed,  \* indices of m_links that SetupIpAddressing assigned a subnet, in order
    worldSize,  \* SetWorldSize argument of InstallMpiApplications
    sched       \* collective operations handed to the MPI helper, in order

VARIABLES
    world_size_,       \* CorrectnessTests::world_size_
    test,              \* the test_single_* call every rank is in, with its arguments
    tstage,            \* how far the ranks have come in that call
    send_buffer,       \* send_buffer of every rank
    recv_buffer,       \* recv_buffer of every rank (test_single_broadcast)
    native_recv,       \* native_recv of every rank (test_single_reduce)
    optimized_recv,    \* optimized_recv of every rank (test_single_reduce)
    native_correct,    \* native_correct of every rank (test_single_broadcast)
    passed,            \* value the test_single_* call returned on every rank
    all_passed,        \* all_passed of run_all_correctness_tests on every rank
    report             \* what rank 0 printed at the end of run_all_correctness_tests

mvars == <<N, fn, iters, eager, cur, pc, it, todo, chan, inBarrier, result,
           matrix, sentCnt, recvCnt, barCnt, calls, recvLog>>

cvars == <<call, alg, phases, step, order, sendbuf, buf>>

tvars == <<timings_, current_section_, start_time_, clock, open, pairSum, tcalls,
           lastCall>>

svars == <<samples_, lastOp>>

nvars == <<scen, args, nstage, shape, created, li, m_links, placed, addressed,
           worldSize, sched>>

xvars == <<world_size_, test, tstage, send_buffer, recv_buffer, native_recv,
           optimized_recv, native_correct, passed, all_passed, report>>

vars == <<mvars, cvars, tvars, svars, nvars, xvars>>

\* the variables the measurement harness does not touch
notM == <<cvars, tvars, svars, nvars, xvars>>

\* the variables a collective call does not touch
notC == <<mvars, tvars, svars, nvars, xvars>>

\* the variables the timer does not touch
notT == <<mvars, cvars, svars, nvars, xvars>>

\* the variables the analyzer does not touch
notS == <<mvars, cvars, tvars, nvars, xvars>>

\* the variables the network scenarios do not touch
notN == <<mvars, cvars, tvars, svars, xvars>>

\* the variables the correctness tests do not touch
notX == <<mvars, cvars, tvars, svars, nvars>>

Ranks == 0 .. (N - 1)

BwValues == 0 .. MaxBw

(***************************************************************************)
(* Measurement harness                                                     *)
(***************************************************************************)

ParticipatesAlways(r, pair) == TRUE

\* `world_rank != src_rank && world_rank != dst_rank` negated
Participates(r, pair) == r = pair[1] \/ r = pair[2]

Peer(r, pair) == IF r = pair[1] THEN pair[2] ELSE pair[1]

\* body of one loop iteration, as the sequence of blocking calls a rank makes
PingPongSendFirst(f, r, pair) ==
    IF f = "latency" THEN <<"send", "recv">>
    ELSE IF r = pair[1] THEN <<"send">> ELSE <<"recv">>

IterOps(f, r, pair) ==
    IF f = "latency"
    THEN IF r = pair[1] THEN <<"send", "recv">> ELSE <<"recv", "send">>
    ELSE IF r = pair[1] THEN <<"send">> ELSE <<"recv">>

\* loop heads: `i < warmup_iterations_` and `i < iterations`
TimedHead(i, n) ==
    IF i < n THEN [pc |-> "barrier", it |-> i, todo |-> <<>>]
    ELSE [pc |-> "ret", it |-> i, todo |-> <<>>]

WarmupHead(f, r, pair, i, n) ==
    IF i < WarmupIters THEN [pc |-> "warmup", it |-> i, todo |-> IterOps(f, r, pair)]
    ELSE TimedHead(0, n)

\* position after the current blocking call of the loop body has completed
AfterOp(f, r, pair, p, i, ops, n) ==
    IF Len(ops) > 1 THEN [pc |-> p, it |-> i, todo |-> Tail(ops)]
    ELSE IF p = "warmup" THEN WarmupHead(f, r, pair, i + 1, n)
    ELSE TimedHead(i + 1, n)

\* pairs of the all-to-all double loop, from (s, d) on
RECURSIVE NextPairFrom(_, _, _)
NextPairFrom(s, d, n) ==
    IF s >= n THEN <<n, n>>
    ELSE IF d < n THEN <<s, d>>
    ELSE NextPairFrom(s + 1, s + 2, n)

RecordNoMirror(m, pair, bw) == [m EXCEPT ![pair[1]][pair[2]] = bw]

RecordBandwidth(m, pair, bw) ==
    [m EXCEPT ![pair[1]][pair[2]] = bw, ![pair[2]][pair[1]] = bw]

MeasuredByAll(r, pair) == BwValues

\* value the point-to-point call returns: 0.0 outside the pair, the measured average inside
MeasuredValues(r, pair) == IF Participates(r, pair) THEN BwValues ELSE {0}

MInit ==
    /\ N \in 2 .. MaxN
    /\ fn \in {"latency", "bandwidth", "alltoall"}
    /\ iters \in 1 .. MaxIters
    /\ eager \in BOOLEAN
    /\ \E a \in Ranks, b \in Ranks :
          /\ a # b
          /\ IF fn = "alltoall"
             THEN a = 0 /\ b = 1 /\ cur = [r \in Ranks |-> NextPairFrom(0, 1, N)]
             ELSE cur = [r \in Ranks |-> <<a, b>>]
    /\ pc = [r \in Ranks |-> "call"]
    /\ it = [r \in Ranks |-> 0]
    /\ todo = [r \in Ranks |-> <<>>]
    /\ chan = [s \in Ranks |-> [d \in Ranks |-> <<>>]]
    /\ inBarrier = {}
    /\ result = [r \in Ranks |-> 0]
    /\ matrix = [r \in Ranks |-> [a \in Ranks |-> [b \in Ranks |-> 0]]]
    /\ sentCnt = [r \in Ranks |-> 0]
    /\ recvCnt = [r \in Ranks |-> 0]
    /\ barCnt = [r \in Ranks |-> 0]
    /\ calls = [r \in Ranks |-> <<>>]
    /\ recvLog = [r \in Ranks |-> <<>>]

SetPos(r, pos) ==
    /\ pc' = [pc EXCEPT ![r] = pos.pc]
    /\ it' = [it EXCEPT ![r] = pos.it]
    /\ todo' = [todo EXCEPT ![r] = pos.todo]

\* entry of measure_point_to_point_latency / _bandwidth
Call(r) ==
    /\ pc[r] = "call"
    /\ calls' = [calls EXCEPT ![r] = Append(@, cur[r])]
    /\ IF Participates(r, cur[r])
       THEN SetPos(r, WarmupHead(fn, r, cur[r], 0, iters))
       ELSE SetPos(r, [pc |-> "ret", it |-> 0, todo |-> <<>>])
    /\ UNCHANGED <<N, fn, iters, eager, cur, chan, inBarrier, result, matrix,
                   sentCnt, recvCnt, barCnt, recvLog>>
    /\ UNCHANGED notM

\* MPI_Send(..., peer, 0, comm_)
Send(r) ==
    /\ pc[r] \in {"warmup", "timed"}
    /\ todo[r] # <<>> /\ Head(todo[r]) = "send"
    /\ chan' = [chan EXCEPT ![r][Peer(r, cur[r])] =
                    Append(@, [ph |-> pc[r], i |-> it[r]])]
    /\ sentCnt' = [sentCnt EXCEPT ![r] = @ + 1]
    /\ IF eager
       THEN SetPos(r, AfterOp(fn, r, cur[r], pc[r], it[r], todo[r], iters))
       ELSE SetPos(r, [pc |-> pc[r], it |-> it[r],
                       todo |-> <<"wait">> \o Tail(todo[r])])
    /\ UNCHANGED <<N, fn, iters, eager, cur, inBarrier, result, matrix,
                   recvCnt, barCnt, calls, recvLog>>
    /\ UNCHANGED notM

\* a blocking (rendezvous) MPI_Send returns once the message was received
SendComplete(r) ==
    /\ pc[r] \in {"warmup", "timed"}
    /\ todo[r] # <<>> /\ Head(todo[r]) = "wait"
    /\ chan[r][Peer(r, cur[r])] = <<>>
    /\ SetPos(r, AfterOp(fn, r, cur[r], pc[r], it[r], todo[r], iters))
    /\ UNCHANGED <<N, fn, iters, eager, cur, chan, inBarrier, result, matrix,
                   sentCnt, recvCnt, barCnt, calls, recvLog>>
    /\ UNCHANGED notM

\* MPI_Recv(..., peer, 0, comm_, MPI_STATUS_IGNORE)
Recv(r) ==
    /\ pc[r] \in {"warmup", "timed"}
    /\ todo[r] # <<>> /\ Head(todo[r]) = "recv"
    /\ chan[Peer(r, cur[r])][r] # <<>>
    /\ recvLog' = [recvLog EXCEPT ![r] =
                     Append(@, [msg |-> Head(chan[Peer(r, cur[r])][r]),
                                at |-> [ph |-> pc[r], i |-> it[r]]])]
    /\ chan' = [chan EXCEPT ![Peer(r, cur[r])][r] = Tail(@)]
    /\ recvCnt' = [recvCnt EXCEPT ![r] = @ + 1]
    /\ SetPos(r, AfterOp(fn, r, cur[r], pc[r], it[r], todo[r], iters))
    /\ UNCHANGED <<N, fn, iters, eager, cur, inBarrier, result, matrix,
                   sentCnt, barCnt, calls>>
    /\ UNCHANGED notM

\* MPI_Barrier(comm_): the rank enters and blocks
BarrierEnter(r) ==
    /\ pc[r] = "barrier"
    /\ pc' = [pc EXCEPT ![r] = "inbarrier"]
    /\ inBarrier' = inBarrier \cup {r}
    /\ barCnt' = [barCnt EXCEPT ![r] = @ + 1]
    /\ UNCHANGED <<N, fn, iters, eager, cur, it, todo, chan, result, matrix,
                   sentCnt, recvCnt, calls, recvLog>>
    /\ UNCHANGED notM

\* MPI_Barrier(comm_) completes once every rank of the communicator has entered
BarrierRelease ==
    /\ inBarrier = Ranks
    /\ inBarrier' = {}
    /\ pc' = [r \in Ranks |-> "timed"]
    /\ todo' = [r \in Ranks |-> IterOps(fn, r, cur[r])]
    /\ UNCHANGED <<N, fn, iters, eager, cur, it, chan, result, matrix,
                   sentCnt, recvCnt, barCnt, calls, recvLog>>
    /\ UNCHANGED notM

\* return of the point-to-point measurement to its caller
ReturnP2P(r) ==
    /\ fn # "alltoall"
    /\ pc[r] = "ret"
    /\ \E v \in MeasuredValues(r, cur[r]) :
          result' = [result EXCEPT ![r] = v]
    /\ pc' = [pc EXCEPT ![r] = "done"]
    /\ UNCHANGED <<N, fn, iters, eager, cur, it, todo, chan, inBarrier, matrix,
                   sentCnt, recvCnt, barCnt, calls, recvLog>>
    /\ UNCHANGED notM

\* body of the double loop of measure_all_to_all_bandwidth after the call returned
AllToAllNext(r) ==
    /\ fn = "alltoall"
    /\ pc[r] = "ret"
    /\ \E v \in MeasuredValues(r, cur[r]) :
          /\ result' = [result EXCEPT ![r] = v]
          /\ matrix' = [matrix EXCEPT ![r] = RecordBandwidth(@, cur[r], v)]
    /\ LET nxt == NextPairFrom(cur[r][1], cur[r][2] + 1, N) IN
          /\ cur' = [cur EXCEPT ![r] = nxt]
          /\ pc' = [pc EXCEPT ![r] = IF nxt[1] >= N THEN "done" ELSE "call"]
    /\ UNCHANGED <<N, fn, iters, eager, it, todo, chan, inBarrier,
                   sentCnt, recvCnt, barCnt, calls, recvLog>>
    /\ UNCHANGED notM

MNext ==
    \/ \E r \in Ranks : Call(r)
    \/ \E r \in Ranks : Send(r)
    \/ \E r \in Ranks : SendComplete(r)
    \/ \E r \in Ranks : Recv(r)
    \/ \E r \in Ranks : BarrierEnter(r)
    \/ BarrierRelease
    \/ \E r \in Ranks : ReturnP2P(r)
    \/ \E r \in Ranks : AllToAllNext(r)

(***************************************************************************)
(* Collective optimizer and algorithm library                              *)
(***************************************************************************)
\* largest process group of a collective call
MaxCN == 8
\* largest element count of a collective call
MaxCount == 3
\* largest pipeline segment count
MaxSeg == 2

\* selection thresholds in bytes, and the group size scatter-allgather needs
TSmall == 4096
TLarge == 262144
ScatterMinN == 8

DatatypeSizes == {8, TSmall, TLarge}

CRanks == 0 .. (call.n - 1)

\* buffer[i] = i + rank + 1 for i in [0, size)
InitializeSequential(size, rank) == [i \in 1 .. size |-> (i - 1) + rank + 1]

Zeros(size) == [i \in 1 .. size |-> 0]

RECURSIVE Pow2(_)
Pow2(k) == IF k <= 0 THEN 1 ELSE 2 * Pow2(k - 1)

RECURSIVE CeilLog2From(_, _)
CeilLog2From(n, k) == IF Pow2(k) >= n THEN k ELSE CeilLog2From(n, k + 1)

CeilLog2(n) == CeilLog2From(n, 0)

IsPow2(n) == Pow2(CeilLog2(n)) = n

Min2(a, b) == IF a < b THEN a ELSE b

\* root-relative rank and back
Rel(r) == (r - call.root + call.n) % call.n

Abs(rl) == (rl + call.root) % call.n

\* exchange partner at distance d (r XOR d for a power of two d)
Partner(r, d) == IF (r \div d) % 2 = 0 THEN r + d ELSE r - d

ApplyOp(op, x, y) ==
    CASE op = "SUM" -> x + y
      [] op = "PROD" -> x * y
      [] op = "MAX" -> IF x > y THEN x ELSE y
      [] op = "MIN" -> IF x < y THEN x ELSE y

BufLen == IF call.kind = "allgather" THEN call.n * call.count ELSE call.count

\* indices of chunks lo .. hi-1 when the buffer is divided into `parts` chunks
ChunkRange(lo, hi, parts) ==
    {i \in 1 .. BufLen : (lo * BufLen) \div parts < i /\ i <= (hi * BufLen) \div parts}

ChunkIdx(c, parts) == ChunkRange(c, c + 1, parts)

\* hop count between two ranks under the model's topology
Dist(a, b) ==
    IF call.topo = "TORUS_2D"
    THEN LET dx == call.dimx
             dy == call.n \div call.dimx
             ax == IF (a % dx) > (b % dx) THEN (a % dx) - (b % dx)
                   ELSE (b % dx) - (a % dx)
             ay == IF (a \div dx) > (b \div dx) THEN (a \div dx) - (b \div dx)
                   ELSE (b \div dx) - (a \div dx)
         IN  Min2(ax, dx - ax) + Min2(ay, dy - ay)
    ELSE IF a = b THEN 0 ELSE 1

\* greedy nearest-neighbour chain: extend by the closest rank not yet in it
RECURSIVE ChainFrom(_, _)
ChainFrom(chain, rest) ==
    IF rest = {} THEN chain
    ELSE LET last == chain[Len(chain)]
             best == CHOOSE x \in rest :
                        \A y \in rest : Dist(last, x) < Dist(last, y)
                                        \/ (Dist(last, x) = Dist(last, y) /\ x <= y)
         IN  ChainFrom(Append(chain, best), rest \ {best})

Chain(start) == ChainFrom(<<start>>, CRanks \ {start})

PosOf(r, chain) == CHOOSE p \in 0 .. (call.n - 1) : chain[p + 1] = r

NoXfer == [src |-> -1, idx |-> {}, red |-> FALSE]

\* what rank r receives in one round of each algorithm phase
XBinomialBcastSkip(r, k) ==
    LET d == Pow2(k)
        rl == Rel(r)
    IN  IF rl > d /\ rl < 2 * d
        THEN [src |-> Abs(rl - d), idx |-> 1 .. BufLen, red |-> FALSE]
        ELSE NoXfer

XBinomialBcast(r, k) ==
    LET d == Pow2(k)
        rl == Rel(r)
    IN  IF rl >= d /\ rl < 2 * d
        THEN [src |-> Abs(rl - d), idx |-> 1 .. BufLen, red |-> FALSE]
        ELSE NoXfer

XPipeline(r, t) ==
    LET chain == order
        j == PosOf(r, chain)
        sg == t - (j - 1)
    IN  IF j >= 1 /\ sg >= 0 /\ sg < call.seg
        THEN [src |-> chain[j], idx |-> ChunkIdx(sg, call.seg), red |-> FALSE]
        ELSE NoXfer

XScatter(r, k) ==
    LET mask == Pow2(CeilLog2(call.n) - 1 - k)
        rl == Rel(r)
    IN  IF rl % (2 * mask) = mask
        THEN [src |-> Abs(rl - mask),
              idx |-> ChunkRange(rl, Min2(rl + mask, call.n), call.n), red |-> FALSE]
        ELSE NoXfer

XRingAllgatherRel(r, s) ==
    LET rl == Rel(r)
    IN  [src |-> Abs((rl - 1 + call.n) % call.n),
         idx |-> ChunkIdx((rl - 1 - s + 2 * call.n) % call.n, call.n), red |-> FALSE]

XRecDoublingOneWay(r, k) ==
    IF (r \div Pow2(k)) % 2 = 0
    THEN [src |-> Partner(r, Pow2(k)), idx |-> 1 .. BufLen, red |-> TRUE]
    ELSE NoXfer

XRecDoubling(r, k) ==
    [src |-> Partner(r, Pow2(k)), idx |-> 1 .. BufLen, red |-> TRUE]

XHalving(r, k) ==
    LET d == call.n \div Pow2(k + 1)
        lo == (r \div d) * d
    IN  [src |-> Partner(r, d), idx |-> ChunkRange(lo, lo + d, call.n), red |-> TRUE]

XDoublingOwn(r, k) ==
    LET d == Pow2(k)
        lo == (r \div d) * d
    IN  [src |-> Partner(r, d), idx |-> ChunkRange(lo, lo + d, call.n), red |-> FALSE]

XDoubling(r, k) ==
    LET d == Pow2(k)
        p == Partner(r, d)
        lo == (p \div d) * d
    IN  [src |-> p, idx |-> ChunkRange(lo, lo + d, call.n), red |-> FALSE]

XRingReduceScatter(r, s) ==
    LET ring == order
        p == PosOf(r, ring)
    IN  [src |-> ring[((p - 1 + call.n) % call.n) + 1],
         idx |-> ChunkIdx((p - 1 - s + 2 * call.n) % call.n, call.n), red |-> TRUE]

XRingAllgatherPos(r, s) ==
    LET ring == order
        p == PosOf(r, ring)
    IN  [src |-> ring[((p - 1 + call.n) % call.n) + 1],
         idx |-> ChunkIdx((p - s + 2 * call.n) % call.n, call.n), red |-> FALSE]

XBinomialReduceSkipRoot(r, k) ==
    LET d == Pow2(k)
        rl == Rel(r)
    IN  IF rl % (2 * d) = 0 /\ rl + d < call.n /\ rl # 0
        THEN [src |-> Abs(rl + d), idx |-> 1 .. BufLen, red |-> TRUE]
        ELSE NoXfer

XBinomialReduce(r, k) ==
    LET d == Pow2(k)
        rl == Rel(r)
    IN  IF rl % (2 * d) = 0 /\ rl + d < call.n
        THEN [src |-> Abs(rl + d), idx |-> 1 .. BufLen, red |-> TRUE]
        ELSE NoXfer

XGatherToRoot(r, s) ==
    LET ring == order
    IN  IF r = call.root /\ ring[s + 1] # r
        THEN [src |-> ring[s + 1], idx |-> ChunkIdx((s + 1) % call.n, call.n),
              red |-> FALSE]
        ELSE NoXfer

\* number of rounds of a phase
Rounds(ph) ==
    CASE ph \in {"binomial_bcast", "scatter", "binomial_reduce"} -> CeilLog2(call.n)
      [] ph \in {"rec_doubling", "halving", "doubling"} -> CeilLog2(call.n)
      [] ph = "pipeline" -> IF call.n = 1 THEN 0 ELSE call.n + call.seg - 2
      [] ph \in {"ring_allgather", "ring_reduce_scatter", "ring_allgather_pos"} ->
            call.n - 1
      [] ph = "gather_root" -> call.n

PhasesOf(a) ==
    CASE a = "binomial" -> <<"binomial_bcast">>
      [] a = "pipeline" -> <<"pipeline">>
      [] a = "scatter_allgather" -> <<"scatter", "ring_allgather">>
      [] a = "recursive_doubling" -> <<"rec_doubling">>
      [] a = "halving_doubling" -> <<"halving", "doubling">>
      [] a = "ring_allreduce" -> <<"ring_reduce_scatter", "ring_allgather_pos">>
      [] a = "binomial_reduce" -> <<"binomial_reduce">>
      [] a = "reduce_scatter_gather" -> <<"ring_reduce_scatter", "gather_root">>
      [] a = "allgather_doubling" -> <<"doubling">>
      [] a = "allgather_ring" -> <<"ring_allgather">>

\* drop the phases that have no round to run
RECURSIVE SkipEmpty(_)
SkipEmpty(phs) ==
    IF phs = <<>> THEN <<>>
    ELSE IF Rounds(Head(phs)) = 0 THEN SkipEmpty(Tail(phs)) ELSE phs

Bytes == call.count * call.dtsize

\* selection policies of the optimizer
SelectBroadcast ==
    IF Bytes <= TSmall THEN "binomial"
    ELSE IF Bytes >= TLarge /\ call.n >= ScatterMinN THEN "scatter_allgather"
    ELSE IF call.topo = "TORUS_2D" THEN "pipeline"
    ELSE "binomial"

SelectAllreduce ==
    IF IsPow2(call.n) /\ Bytes <= TSmall THEN "recursive_doubling"
    ELSE IF IsPow2(call.n) /\ Bytes < TLarge THEN "halving_doubling"
    ELSE "ring_allreduce"

SelectReduce ==
    IF Bytes >= TLarge THEN "reduce_scatter_gather" ELSE "binomial_reduce"

SelectAllgather ==
    IF IsPow2(call.n) /\ Bytes <= TSmall THEN "allgather_doubling" ELSE "allgather_ring"

Select ==
    CASE call.kind = "broadcast" -> SelectBroadcast
      [] call.kind = "binomial_tree_broadcast" -> "binomial"
      [] call.kind = "pipeline_broadcast" -> "pipeline"
      [] call.kind = "reduce" -> SelectReduce
      [] call.kind = "allreduce" -> SelectAllreduce
      [] call.kind = "allgather" -> SelectAllgather

BroadcastKinds == {"broadcast", "binomial_tree_broadcast", "pipeline_broadcast"}

Kinds == BroadcastKinds \cup {"reduce", "allreduce", "allgather"}

Ops == {"SUM", "MAX", "MIN", "PROD"}

\* the parameters a call of each kind does not read are fixed
CInit ==
    /\ \E k \in Kinds, n \in 1 .. MaxCN, c \in 0 .. MaxCount :
       \E rt \in 0 .. (n - 1), ds \in DatatypeSizes, o \in Ops :
       \E tp \in {"FLAT", "TORUS_2D"}, dx \in 1 .. n, sg \in 1 .. MaxSeg :
          /\ k \in {"allreduce", "allgather"} => rt = 0
          /\ k \in BroadcastKinds \cup {"allgather"} => o = "SUM"
          /\ k = "allreduce" => o # "PROD"
          /\ k = "binomial_tree_broadcast" => ds = 8 /\ tp = "FLAT"
          /\ k = "pipeline_broadcast" => ds = 8
          /\ k \notin {"broadcast", "pipeline_broadcast"} => sg = 1
          /\ IF tp = "TORUS_2D" THEN n % dx = 0 ELSE dx = 1
          /\ call = [kind |-> k, n |-> n, root |-> rt, count |-> c, dtsize |-> ds,
                     op |-> o, topo |-> tp, dimx |-> dx, seg |-> sg]
    /\ alg = "none"
    /\ phases = <<>>
    /\ step = 0
    /\ order = <<>>
    /\ sendbuf = [r \in CRanks |->
                    IF call.kind \in BroadcastKinds /\ r # call.root
                    THEN Zeros(call.count)
                    ELSE InitializeSequential(call.count, r)]
    /\ buf = [r \in CRanks |->
                IF call.kind \in BroadcastKinds THEN sendbuf[r] ELSE Zeros(BufLen)]

\* recvbuf of a rank when the algorithm starts
StartBuf(r) ==
    CASE call.kind \in BroadcastKinds -> buf[r]
      [] call.kind \in {"reduce", "allreduce"} -> sendbuf[r]
      [] call.kind = "allgather" ->
            [i \in 1 .. BufLen |->
                IF i \in ChunkIdx(r, call.n) THEN sendbuf[r][i - r * call.count] ELSE 0]

\* pipeline chain (from the root) or ring order of the chosen algorithm
OrderOf(a) ==
    IF a = "pipeline" THEN Chain(call.root)
    ELSE IF a \in {"ring_allreduce", "reduce_scatter_gather"} THEN Chain(0)
    ELSE <<>>

\* DECIDE and DISPATCH: the optimizer picks the algorithm for the call
Dispatch ==
    /\ alg = "none"
    /\ alg' = Select
    /\ phases' = SkipEmpty(PhasesOf(Select))
    /\ step' = 0
    /\ order' = OrderOf(Select)
    /\ buf' = [r \in CRanks |-> StartBuf(r)]
    /\ UNCHANGED <<call, sendbuf>>
    /\ UNCHANGED notC

Merge(dst, src, idx, red) ==
    [i \in 1 .. BufLen |->
        IF i \in idx
        THEN IF red THEN ApplyOp(call.op, dst[i], src[i]) ELSE src[i]
        ELSE dst[i]]

\* EXECUTE: one round of phase ph, in which rank r receives xf[r]
Round(ph, xf) ==
    /\ alg # "none"
    /\ phases # <<>> /\ Head(phases) = ph
    /\ buf' = [r \in CRanks |->
                 IF xf[r].src = -1 THEN buf[r]
                 ELSE Merge(buf[r], buf[xf[r].src], xf[r].idx, xf[r].red)]
    /\ IF step + 1 < Rounds(ph)
       THEN step' = step + 1 /\ phases' = phases
       ELSE step' = 0 /\ phases' = SkipEmpty(Tail(phases))
    /\ UNCHANGED <<call, alg, order, sendbuf>>
    /\ UNCHANGED notC

BinomialBcastRound ==
    Round("binomial_bcast", [r \in CRanks |-> XBinomialBcast(r, step)])

PipelineStep ==
    Round("pipeline", [r \in CRanks |-> XPipeline(r, step)])

ScatterRound ==
    Round("scatter", [r \in CRanks |-> XScatter(r, step)])

RingAllgatherStep ==
    Round("ring_allgather", [r \in CRanks |-> XRingAllgatherRel(r, step)])

RecDoublingRound ==
    Round("rec_doubling", [r \in CRanks |-> XRecDoubling(r, step)])

HalvingRound ==
    Round("halving", [r \in CRanks |-> XHalving(r, step)])

DoublingRound ==
    Round("doubling", [r \in CRanks |-> XDoubling(r, step)])

RingReduceScatterStep ==
    Round("ring_reduce_scatter", [r \in CRanks |-> XRingReduceScatter(r, step)])

RingAllgatherPosStep ==
    Round("ring_allgather_pos", [r \in CRanks |-> XRingAllgatherPos(r, step)])

BinomialReduceRound ==
    Round("binomial_reduce", [r \in CRanks |-> XBinomialReduce(r, step)])

GatherToRootStep ==
    Round("gather_root", [r \in CRanks |-> XGatherToRoot(r, step)])

CNext ==
    \/ Dispatch
    \/ BinomialBcastRound
    \/ PipelineStep
    \/ ScatterRound
    \/ RingAllgatherStep
    \/ RecDoublingRound
    \/ HalvingRound
    \/ DoublingRound
    \/ RingReduceScatterStep
    \/ RingAllgatherPosStep
    \/ BinomialReduceRound
    \/ GatherToRootStep

\* no collective call is in progress
CIdle ==
    /\ call = [kind |-> "none", n |-> 1, root |-> 0, count |-> 0, dtsize |-> 8,
               op |-> "SUM", topo |-> "FLAT", dimx |-> 1, seg |-> 1]
    /\ alg = "none"
    /\ phases = <<>>
    /\ step = 0
    /\ order = <<>>
    /\ sendbuf = <<>>
    /\ buf = <<>>

\* no measurement is in progress
MIdle ==
    /\ N = 1 /\ fn = "none" /\ iters = 0 /\ eager = FALSE
    /\ cur = <<>> /\ pc = <<>> /\ it = <<>> /\ todo = <<>> /\ chan = <<>>
    /\ inBarrier = {} /\ result = <<>> /\ matrix = <<>>
    /\ sentCnt = <<>> /\ recvCnt = <<>> /\ barCnt = <<>> /\ calls = <<>>
    /\ recvLog = <<>>

(***************************************************************************)
(* PerformanceTimer                                                        *)
(***************************************************************************)
\* names the callers pass to start()
SectionNames == {"comm", "comp"}

\* m[key] += d on a std::map: a missing key is inserted with value 0.0 first
MapAdd(m, key, d) ==
    IF key \in DOMAIN m THEN [m EXCEPT ![key] = @ + d] ELSE m @@ (key :> d)

\* duration_cast<microseconds>(end_time - start_time_).count()
Elapsed(end_time, begin) == end_time - begin

\* the constructor calls reset(); start_time_ is default-constructed (the epoch)
NoCall == [op |-> "none", name |-> "", over |-> "", ret |-> 0]

TInit ==
    /\ timings_ = <<>> /\ current_section_ = "" /\ start_time_ = 0
    /\ clock = 1
    /\ open = <<>> /\ pairSum = <<>> /\ tcalls = 0
    /\ lastCall = NoCall

Tick ==
    /\ clock < MaxClock
    /\ clock' = clock + 1
    /\ UNCHANGED <<timings_, current_section_, start_time_, open, pairSum, tcalls,
                   lastCall>>
    /\ UNCHANGED notT

startKeepsTime(section_name) ==
    /\ tcalls < MaxCalls /\ tcalls' = tcalls + 1
    /\ current_section_' = section_name
    /\ start_time_' = IF current_section_ = "" THEN clock ELSE start_time_
    /\ open' = <<section_name, clock>>
    /\ lastCall' = [NoCall EXCEPT !.op = "start", !.name = section_name,
                                  !.over = current_section_]
    /\ UNCHANGED <<timings_, clock, pairSum>>
    /\ UNCHANGED notT
start(section_name) ==
    /\ tcalls < MaxCalls /\ tcalls' = tcalls + 1
    /\ current_section_' = section_name
    /\ start_time_' = clock
    /\ open' = <<section_name, clock>>
    /\ lastCall' = [NoCall EXCEPT !.op = "start", !.name = section_name,
                                  !.over = current_section_]
    /\ UNCHANGED <<timings_, clock, pairSum>>
    /\ UNCHANGED notT

stop ==
    /\ tcalls < MaxCalls /\ tcalls' = tcalls + 1
    /\ timings_' = MapAdd(timings_, current_section_, Elapsed(clock, start_time_))
    /\ current_section_' = ""
    /\ pairSum' = IF open = <<>> THEN pairSum
                  ELSE MapAdd(pairSum, open[1], Elapsed(clock, open[2]))
    /\ open' = <<>>
    /\ lastCall' = [NoCall EXCEPT !.op = "stop", !.name = current_section_,
                                  !.over = IF current_section_ = "" THEN ""
                                           ELSE lastCall.over]
    /\ UNCHANGED <<start_time_, clock>>
    /\ UNCHANGED notT

reset ==
    /\ tcalls < MaxCalls /\ tcalls' = tcalls + 1
    /\ timings_' = <<>>
    /\ current_section_' = ""
    /\ open' = <<>> /\ pairSum' = <<>>
    /\ lastCall' = [NoCall EXCEPT !.op = "reset"]
    /\ UNCHANGED <<start_time_, clock>>
    /\ UNCHANGED notT

\* names the callers ask get_elapsed_time for: the sections and one never started
QueryNames == SectionNames \cup {"io"}

\* timings_.find(section_name): the stored value, 0.0 when there is no entry
get_elapsed_time(section_name) ==
    /\ lastCall' = [op |-> "get", name |-> section_name, over |-> lastCall.over,
                    ret |-> IF section_name \in DOMAIN timings_
                            THEN timings_[section_name] ELSE 0]
    /\ UNCHANGED <<timings_, current_section_, start_time_, clock, open, pairSum,
                   tcalls>>
    /\ UNCHANGED notT

TNext ==
    \/ Tick
    \/ \E name \in SectionNames : start(name)
    \/ stop
    \/ reset
    \/ \E name \in QueryNames : get_elapsed_time(name)

TIdle ==
    /\ timings_ = <<>> /\ current_section_ = "" /\ start_time_ = 0 /\ clock = 0
    /\ open = <<>> /\ pairSum = <<>> /\ tcalls = 0
    /\ lastCall = NoCall

(***************************************************************************)
(* StatisticalAnalyzer: Tukey fences                                       *)
(***************************************************************************)
\* values passed to add_sample
SampleValues == {0, 1, 3}

\* thresholds k >= 0 passed by the callers, in halves: 0, 1, 1.5 (the default)
\* and 2; products and bounds below are kept doubled so they stay integers
Thresholds == {0, 2, 3, 4}

RECURSIVE InsertSorted(_, _)
InsertSorted(x, s) ==
    IF s = <<>> THEN <<x>>
    ELSE IF x <= Head(s) THEN <<x>> \o s
    ELSE <<Head(s)>> \o InsertSorted(x, Tail(s))

\* std::sort(sorted_samples.begin(), sorted_samples.end())
RECURSIVE SortSamples(_)
SortSamples(s) ==
    IF s = <<>> THEN <<>> ELSE InsertSorted(Head(s), SortSamples(Tail(s)))

Q1Index(n) == n \div 4

Q3IndexLow(n) == 3 * (n \div 4)
Q3Index(n) == (3 * n) \div 4

\* q1 and q3 of sorted_samples (0-based indices n / 4 and 3 * n / 4)
Q1(sorted) == sorted[Q1Index(Len(sorted)) + 1]

Q3(sorted) == sorted[Q3Index(Len(sorted)) + 1]

\* twice lower_bound = q1 - threshold * iqr and twice upper_bound = q3 + threshold * iqr
LowerBoundPlus(q1, q3, k) == 2 * q1 + k * (q3 - q1)
LowerBound(q1, q3, k) == 2 * q1 - k * (q3 - q1)

UpperBound(q1, q3, k) == 2 * q3 + k * (q3 - q1)

\* sample < lower_bound || sample > upper_bound
IsOutlier(x, lo, hi) == 2 * x < lo \/ 2 * x > hi

\* sample >= lower_bound && sample <= upper_bound
InsideOpen(x, lo, hi) == 2 * x > lo /\ 2 * x < hi
Inside(x, lo, hi) == 2 * x >= lo /\ 2 * x <= hi

detect_outliers(smp, k) ==
    IF Len(smp) < 4 THEN <<>>
    ELSE LET sorted == SortSamples(smp)
             lo == LowerBound(Q1(sorted), Q3(sorted), k)
             hi == UpperBound(Q1(sorted), Q3(sorted), k)
         IN  SelectSeq(smp, LAMBDA x : IsOutlier(x, lo, hi))

\* cleaned_samples of remove_outliers
Cleaned(smp, k) ==
    LET sorted == SortSamples(smp)
        lo == LowerBound(Q1(sorted), Q3(sorted), k)
        hi == UpperBound(Q1(sorted), Q3(sorted), k)
    IN  SelectSeq(smp, LAMBDA x : Inside(x, lo, hi))

\* return value and resulting samples_ of remove_outliers
remove_outliersAlways(smp, k) ==
    IF Len(smp) < 4 THEN [ret |-> FALSE, samples |-> smp]
    ELSE [ret |-> TRUE, samples |-> Cleaned(smp, k)]
remove_outliers(smp, k) ==
    IF detect_outliers(smp, k) = <<>> THEN [ret |-> FALSE, samples |-> smp]
    ELSE LET cleaned == Cleaned(smp, k)
         IN  IF Len(cleaned) < Len(smp)
             THEN [ret |-> TRUE, samples |-> cleaned]
             ELSE [ret |-> FALSE, samples |-> smp]

\* a double result: the quotient num / den, or its square root when root is set;
\* den = 0 stands for the result of a division by zero
Frac(num, den) == [num |-> num, den |-> den, root |-> FALSE]

Root(f) == [f EXCEPT !.root = TRUE]

\* the literal 0.0
Zero == Frac(0, 1)

RECURSIVE Sum(_)
\* std::accumulate over a vector
Sum(s) == IF s = <<>> THEN 0 ELSE Head(s) + Sum(Tail(s))

calculate_mean(smp) ==
    IF smp = <<>> THEN Zero ELSE Frac(Sum(smp), Len(smp))

calculate_median(smp) ==
    IF smp = <<>> THEN Zero
    ELSE LET sorted == SortSamples(smp)
             n == Len(sorted)
         IN  IF n % 2 = 0
             THEN Frac(sorted[(n \div 2 - 1) + 1] + sorted[(n \div 2) + 1], 2)
             ELSE Frac(sorted[(n \div 2) + 1], 1)

\* sqrt(sum_squared_diff / (n - 1)) with diff = sample - mean = (n*sample - sum) / n
calculate_standard_deviationEmptyOnly(smp) ==
    IF Len(smp) < 1 THEN Zero
    ELSE LET n == Len(smp)
             total == Sum(smp)
         IN  Root(Frac(Sum([i \in 1 .. n |-> (n * smp[i] - total) * (n * smp[i] - total)]),
                       n * n * (n - 1)))
calculate_standard_deviation(smp) ==
    IF Len(smp) <= 1 THEN Zero
    ELSE LET n == Len(smp)
             total == Sum(smp)
         IN  Root(Frac(Sum([i \in 1 .. n |-> (n * smp[i] - total) * (n * smp[i] - total)]),
                       n * n * (n - 1)))

\* stddev * stddev
calculate_variance(smp) ==
    LET stddev == calculate_standard_deviation(smp)
    IN  Frac(stddev.num, stddev.den)

\* z_score * stddev / sqrt(n) with z_score = 1.96, kept under one square root
calculate_confidence_interval(smp) ==
    IF Len(smp) <= 1 THEN Zero
    ELSE LET stddev == calculate_standard_deviation(smp)
         IN  Root(Frac(196 * 196 * stddev.num, 100 * 100 * stddev.den * Len(smp)))

\* *std::min_element / *std::max_element
calculate_min(smp) ==
    IF smp = <<>> THEN Zero
    ELSE Frac(CHOOSE x \in {smp[i] : i \in 1 .. Len(smp)} :
                 \A i \in 1 .. Len(smp) : x <= smp[i], 1)

calculate_max(smp) ==
    IF smp = <<>> THEN Zero
    ELSE Frac(CHOOSE x \in {smp[i] : i \in 1 .. Len(smp)} :
                 \A i \in 1 .. Len(smp) : x >= smp[i], 1)

\* the statistic a getter returns
Statistic(name, smp) ==
    CASE name = "mean" -> calculate_mean(smp)
      [] name = "median" -> calculate_median(smp)
      [] name = "standard_deviation" -> calculate_standard_deviation(smp)
      [] name = "variance" -> calculate_variance(smp)
      [] name = "confidence_interval" -> calculate_confidence_interval(smp)
      [] name = "min" -> calculate_min(smp)
      [] name = "max" -> calculate_max(smp)

StatisticNames ==
    {"mean", "median", "standard_deviation", "variance", "confidence_interval",
     "min", "max"}

NoOp == [op |-> "none", k |-> 0, pre |-> <<>>, ret |-> FALSE, out |-> <<>>,
         prev |-> "none", val |-> Zero]

\* what the call before a remove_outliers(k) returned, if it was remove_outliers(k)
PrevRemove(k) ==
    IF lastOp.op = "remove" /\ lastOp.k = k
    THEN (IF lastOp.ret THEN "true" ELSE "false")
    ELSE "none"

SInit == samples_ = <<>> /\ lastOp = NoOp

add_sample(value) ==
    /\ Len(samples_) < MaxSamples
    /\ samples_' = Append(samples_, value)
    /\ lastOp' = [NoOp EXCEPT !.op = "add"]
    /\ UNCHANGED notS

clear_samples ==
    /\ samples_ # <<>>
    /\ samples_' = <<>>
    /\ lastOp' = [NoOp EXCEPT !.op = "clear"]
    /\ UNCHANGED notS

DetectOutliers(k) ==
    /\ lastOp' = [op |-> "detect", k |-> k, pre |-> samples_, ret |-> FALSE,
                  out |-> detect_outliers(samples_, k), prev |-> "none",
                  val |-> Zero]
    /\ UNCHANGED samples_
    /\ UNCHANGED notS

RemoveOutliers(k) ==
    LET res == remove_outliers(samples_, k)
    IN  /\ samples_' = res.samples
        /\ lastOp' = [op |-> "remove", k |-> k, pre |-> samples_, ret |-> res.ret,
                      out |-> <<>>, prev |-> PrevRemove(k), val |-> Zero]
        /\ UNCHANGED notS

\* a call of calculate_mean, calculate_median, ... : const, returns a number
Calculate(name) ==
    /\ lastOp' = [NoOp EXCEPT !.op = name, !.pre = samples_,
                              !.val = Statistic(name, samples_)]
    /\ UNCHANGED samples_
    /\ UNCHANGED notS

SNext ==
    \/ \E v \in SampleValues : add_sample(v)
    \/ clear_samples
    \/ \E k \in Thresholds : DetectOutliers(k)
    \/ \E k \in Thresholds : RemoveOutliers(k)
    \/ \E name \in StatisticNames : Calculate(name)

SIdle == samples_ = <<>> /\ lastOp = NoOp

(***************************************************************************)
(* Network scenarios: fat-tree and torus                                   *)
(***************************************************************************)
\* uint32_t arithmetic: results wrap around.  The model checker's integers are
\* 32-bit signed, so the modulus 2^32 is scaled to 2^30; every value the
\* scenarios compute without wrapping is far below it.
U32(v) == v % (2 ^ 30)

NoShape ==
    [k |-> 0, pods |-> 0, cores |-> 0, aggregationPerPod |-> 0, edgePerPod |-> 0,
     computePerEdge |-> 0, dimX |-> 0, dimY |-> 0, dimZ |-> 0, is3D |-> FALSE]

NoNodes == [compute |-> 0, edge |-> 0, aggregation |-> 0, core |-> 0, all |-> 0]

NoArgs == [k |-> 0, x |-> 0, y |-> 0, z |-> 0, threeD |-> FALSE]

\* command lines: --k for the fat-tree, --x --y --z --3d for the torus
FatTreeArgs == {[NoArgs EXCEPT !.k = k] : k \in 0 .. MaxK}

TorusArgs ==
    {[NoArgs EXCEPT !.x = x, !.y = y, !.z = z, !.threeD = t] :
        x \in 0 .. MaxDim, y \in 0 .. MaxDim, z \in 0 .. MaxDim, t \in BOOLEAN}

NInit ==
    /\ \/ scen = "fat_tree" /\ args \in FatTreeArgs
       \/ scen = "torus" /\ args \in TorusArgs
    /\ nstage = "main"
    /\ shape = NoShape /\ created = NoNodes /\ li = 0
    /\ m_links = <<>> /\ placed = {} /\ addressed = <<>>
    /\ worldSize = 0 /\ sched = <<>>

\* main of the fat-tree scenario: an odd k ends the program with exit code 1
FatTreeReject ==
    /\ scen = "fat_tree" /\ nstage = "main"
    /\ args.k % 2 # 0
    /\ nstage' = "rejected"
    /\ UNCHANGED <<scen, args, shape, created, li, m_links, placed, addressed,
                   worldSize, sched>>
    /\ UNCHANGED notN

\* main constructs FatTreeScenario(k) and calls RunSimulation
FatTreeScenario ==
    /\ scen = "fat_tree" /\ nstage = "main"
    /\ args.k % 2 = 0
    /\ shape' = [NoShape EXCEPT !.k = args.k,
                                !.pods = args.k,
                                !.cores = (args.k \div 2) * (args.k \div 2),
                                !.aggregationPerPod = args.k \div 2,
                                !.edgePerPod = args.k \div 2,
                                !.computePerEdge = args.k \div 2]
    /\ nstage' = "create"
    /\ UNCHANGED <<scen, args, created, li, m_links, placed, addressed,
                   worldSize, sched>>
    /\ UNCHANGED notN

\* main of the torus scenario constructs TorusScenario(dimX, dimY, dimZ) and
\* calls RunSimulation; no argument is checked
TorusScenario ==
    /\ scen = "torus" /\ nstage = "main"
    /\ LET dimZ == IF args.threeD /\ args.z = 1 THEN 2 ELSE args.z
       IN  shape' = [NoShape EXCEPT !.dimX = args.x, !.dimY = args.y,
                                    !.dimZ = dimZ, !.is3D = (dimZ > 1)]
    /\ nstage' = "create"
    /\ UNCHANGED <<scen, args, created, li, m_links, placed, addressed,
                   worldSize, sched>>
    /\ UNCHANGED notN

\* the node creation at the head of CreateFatTreeTopology
CreateFatTreeNodes ==
    /\ scen = "fat_tree" /\ nstage = "create"
    /\ created' =
          [compute |-> shape.pods * shape.edgePerPod * shape.computePerEdge,
           edge |-> shape.pods * shape.edgePerPod,
           aggregation |-> shape.pods * shape.aggregationPerPod,
           core |-> shape.cores,
           all |-> shape.pods * shape.edgePerPod * shape.computePerEdge
                   + shape.pods * shape.edgePerPod
                   + shape.pods * shape.aggregationPerPod + shape.cores]
    /\ nstage' = "link" /\ li' = 0
    /\ UNCHANGED <<scen, args, shape, m_links, placed, addressed, worldSize, sched>>
    /\ UNCHANGED notN

\* the node creation at the head of Create2DTorusTopology / Create3DTorusTopology
CreateTorusNodes ==
    /\ scen = "torus" /\ nstage = "create"
    /\ created' =
          [NoNodes EXCEPT !.all = IF shape.is3D
                                  THEN U32(shape.dimX * shape.dimY * shape.dimZ)
                                  ELSE U32(shape.dimX * shape.dimY)]
    /\ nstage' = "link" /\ li' = 0
    /\ UNCHANGED <<scen, args, shape, m_links, placed, addressed, worldSize, sched>>
    /\ UNCHANGED notN

\* iterations of the three loop nests of CreateFatTreeTopology
ComputeEdgeIters == shape.pods * shape.edgePerPod * shape.computePerEdge

EdgeAggIters == shape.pods * shape.edgePerPod * shape.aggregationPerPod

AggCoreIters == shape.pods * shape.aggregationPerPod * (shape.k \div 2)

\* loop variables of iteration r of a nest pod / mid / inner
LoopVars(r, midSize, innerSize) ==
    [pod |-> r \div (midSize * innerSize),
     mid |-> (r \div innerSize) % midSize,
     inner |-> r % innerSize]

EdgeIndex(pod, edge) == pod * shape.edgePerPod + edge

ComputeIndexFlat(pod, edge, compute) ==
    pod * shape.edgePerPod + edge * shape.computePerEdge + compute
ComputeIndex(pod, edge, compute) ==
    pod * shape.edgePerPod * shape.computePerEdge + edge * shape.computePerEdge + compute

AggIndexNoPod(pod, agg) == agg
AggIndex(pod, agg) == pod * shape.aggregationPerPod + agg

CoreIndexFlat(agg, coreGroup) == agg + coreGroup
CoreIndex(agg, coreGroup) == agg * (shape.k \div 2) + coreGroup

\* a link: its two end nodes, DataRate in Gbps and Delay in microseconds
Link(a, b, rate, delay) == [a |-> a, b |-> b, rate |-> rate, delay |-> delay]

\* DataRate and Delay set on p2p in the compute-edge (1), edge-aggregation (2)
\* and aggregation-core (3) loops
TierParamsFlat(tier) ==
    IF tier = 1 THEN [rate |-> 10, delay |-> 1]
    ELSE IF tier = 2 THEN [rate |-> 40, delay |-> 2]
    ELSE [rate |-> 40, delay |-> 1]
TierParams(tier) ==
    IF tier = 1 THEN [rate |-> 10, delay |-> 1]
    ELSE IF tier = 2 THEN [rate |-> 40, delay |-> 2]
    ELSE [rate |-> 40, delay |-> 5]

\* one iteration of the innermost loop of CreateFatTreeTopology
FatTreeLinkStep ==
    /\ scen = "fat_tree" /\ nstage = "link"
    /\ li < ComputeEdgeIters + EdgeAggIters + AggCoreIters
    /\ IF li < ComputeEdgeIters
       THEN LET v == LoopVars(li, shape.edgePerPod, shape.computePerEdge)
                computeIndex == ComputeIndex(v.pod, v.mid, v.inner)
            IN  /\ m_links' = Append(m_links,
                       Link(<<"compute", computeIndex>>,
                            <<"edge", EdgeIndex(v.pod, v.mid)>>,
                            TierParams(1).rate, TierParams(1).delay))
                /\ placed' = placed \cup {<<<<v.pod, v.mid, v.inner>>, computeIndex>>}
       ELSE IF li < ComputeEdgeIters + EdgeAggIters
       THEN LET v == LoopVars(li - ComputeEdgeIters, shape.edgePerPod,
                              shape.aggregationPerPod)
            IN  /\ m_links' = Append(m_links,
                       Link(<<"edge", EdgeIndex(v.pod, v.mid)>>,
                            <<"aggregation", AggIndex(v.pod, v.inner)>>,
                            TierParams(2).rate, TierParams(2).delay))
                /\ UNCHANGED placed
       ELSE LET v == LoopVars(li - ComputeEdgeIters - EdgeAggIters,
                              shape.aggregationPerPod, shape.k \div 2)
                coreIndex == CoreIndex(v.mid, v.inner)
            IN  /\ m_links' = IF coreIndex < shape.cores
                              THEN Append(m_links,
                                       Link(<<"aggregation", AggIndex(v.pod, v.mid)>>,
                                            <<"core", coreIndex>>,
                                            TierParams(3).rate, TierParams(3).delay))
                              ELSE m_links
                /\ UNCHANGED placed
    /\ li' = li + 1
    /\ UNCHANGED <<scen, args, shape, created, nstage, addressed, worldSize, sched>>
    /\ UNCHANGED notN

\* currentNode of the torus loops
NodeIndex(x, y, z) == z * shape.dimX * shape.dimY + y * shape.dimX + x

\* the link an iteration adds towards a neighbour, if any
TorusLink(currentNode, neighbour) ==
    IF currentNode < neighbour
    THEN <<Link(<<"node", currentNode>>, <<"node", neighbour>>, 10, 2)>>
    ELSE <<>>

\* one iteration of the inner loop of Create2DTorusTopology
Torus2DLinkStep ==
    /\ scen = "torus" /\ nstage = "link" /\ ~shape.is3D
    /\ li < shape.dimX * shape.dimY
    /\ LET x == li % shape.dimX
           y == li \div shape.dimX
           currentNode == NodeIndex(x, y, 0)
           rightNode == NodeIndex((x + 1) % shape.dimX, y, 0)
           bottomNode == NodeIndex(x, (y + 1) % shape.dimY, 0)
       IN  /\ m_links' = m_links \o TorusLink(currentNode, rightNode)
                                 \o TorusLink(currentNode, bottomNode)
           /\ placed' = placed \cup {<<<<x, y>>, currentNode>>}
    /\ li' = li + 1
    /\ UNCHANGED <<scen, args, shape, created, nstage, addressed, worldSize, sched>>
    /\ UNCHANGED notN

\* one iteration of the inner loop of Create3DTorusTopology
Torus3DLinkStep ==
    /\ scen = "torus" /\ nstage = "link" /\ shape.is3D
    /\ li < shape.dimX * shape.dimY * shape.dimZ
    /\ LET x == li % shape.dimX
           y == (li \div shape.dimX) % shape.dimY
           z == li \div (shape.dimX * shape.dimY)
           currentNode == NodeIndex(x, y, z)
           rightNode == NodeIndex((x + 1) % shape.dimX, y, z)
           bottomNode == NodeIndex(x, (y + 1) % shape.dimY, z)
           frontNode == NodeIndex(x, y, (z + 1) % shape.dimZ)
       IN  /\ m_links' = m_links \o TorusLink(currentNode, rightNode)
                                 \o TorusLink(currentNode, bottomNode)
                                 \o TorusLink(currentNode, frontNode)
           /\ placed' = placed \cup {<<<<x, y, z>>, currentNode>>}
    /\ li' = li + 1
    /\ UNCHANGED <<scen, args, shape, created, nstage, addressed, worldSize, sched>>
    /\ UNCHANGED notN

\* the Create...Topology loops have run to their end
LinksDone ==
    /\ nstage = "link"
    /\ li = IF scen = "fat_tree" THEN ComputeEdgeIters + EdgeAggIters + AggCoreIters
            ELSE IF shape.is3D THEN shape.dimX * shape.dimY * shape.dimZ
            ELSE shape.dimX * shape.dimY

\* FatTreeScenario::SetupIpAddressing: linkIndex runs over the compute-edge loops
FatTreeSetupIpAddressing ==
    /\ scen = "fat_tree" /\ LinksDone
    /\ addressed' =
          SelectSeq([i \in 1 .. ComputeEdgeIters |->
                        LET v == LoopVars(i - 1, shape.edgePerPod, shape.computePerEdge)
                        IN  ComputeIndex(v.pod, v.mid, v.inner)],
                    LAMBDA linkIndex : linkIndex < Len(m_links))
    /\ nstage' = "install"
    /\ UNCHANGED <<scen, args, shape, created, li, m_links, placed, worldSize, sched>>
    /\ UNCHANGED notN

\* TorusScenario::SetupIpAddressing: every element of m_links
TorusSetupIpAddressing ==
    /\ scen = "torus" /\ LinksDone
    /\ addressed' = [i \in 1 .. Len(m_links) |-> i - 1]
    /\ nstage' = "install"
    /\ UNCHANGED <<scen, args, shape, created, li, m_links, placed, worldSize, sched>>
    /\ UNCHANGED notN

\* SetWorldSize(m_computeNodes.GetN()) / SetWorldSize(m_allNodes.GetN())
InstallMpiApplications ==
    /\ nstage = "install"
    /\ worldSize' = IF scen = "fat_tree" THEN created.compute ELSE created.all
    /\ nstage' = "schedule"
    /\ UNCHANGED <<scen, args, shape, created, li, m_links, placed, addressed, sched>>
    /\ UNCHANGED notN

Op(name, root, dataSize) == [op |-> name, root |-> root, size |-> dataSize]

FatTreeScheduleCollectiveOperations ==
    /\ scen = "fat_tree" /\ nstage = "schedule"
    /\ sched' = [i \in 1 .. 5 |->
                    Op("broadcast", U32((i - 1) * (created.compute \div 5)),
                       1024 * 2 ^ (i - 1))]
                \o [i \in 1 .. 3 |-> Op("allreduce", 0, 2048 * 2 ^ (i - 1))]
                \o <<Op("barrier", 0, 0)>>
    /\ nstage' = "run"
    /\ UNCHANGED <<scen, args, shape, created, li, m_links, placed, addressed,
                   worldSize>>
    /\ UNCHANGED notN

\* rootPositions: centre, corner 0 and the opposite corner
RootPositionsPastEnd ==
    IF shape.is3D
    THEN <<U32((shape.dimZ \div 2) * shape.dimX * shape.dimY
               + (shape.dimY \div 2) * shape.dimX + (shape.dimX \div 2)),
           0,
           U32(shape.dimX * shape.dimY * shape.dimZ)>>
    ELSE <<U32((shape.dimY \div 2) * shape.dimX + (shape.dimX \div 2)),
           0,
           U32(shape.dimX * shape.dimY)>>
RootPositions ==
    IF shape.is3D
    THEN <<U32((shape.dimZ \div 2) * shape.dimX * shape.dimY
               + (shape.dimY \div 2) * shape.dimX + (shape.dimX \div 2)),
           0,
           U32(shape.dimX * shape.dimY * shape.dimZ - 1)>>
    ELSE <<U32((shape.dimY \div 2) * shape.dimX + (shape.dimX \div 2)),
           0,
           U32(shape.dimX * shape.dimY - 1)>>

TorusScheduleCollectiveOperations ==
    /\ scen = "torus" /\ nstage = "schedule"
    /\ sched' = [i \in 1 .. 3 |-> Op("broadcast", RootPositions[i], 2048 * 2 ^ (i - 1))]
                \o [i \in 1 .. 4 |-> Op("allreduce", 0, 1024 * 2 ^ (i - 1))]
                \o (IF worldSize > 0
                    THEN [i \in 1 .. 2 |->
                             Op("topology_broadcast",
                                U32((i - 1) * (created.all \div 2)), 8192)]
                    ELSE <<>>)
    /\ nstage' = "run"
    /\ UNCHANGED <<scen, args, shape, created, li, m_links, placed, addressed,
                   worldSize>>
    /\ UNCHANGED notN

\* Simulator::Run, CollectResults, Simulator::Destroy; main returns 0
Finish ==
    /\ nstage = "run"
    /\ nstage' = "done"
    /\ UNCHANGED <<scen, args, shape, created, li, m_links, placed, addressed,
                   worldSize, sched>>
    /\ UNCHANGED notN

NNext ==
    \/ FatTreeReject
    \/ FatTreeScenario
    \/ TorusScenario
    \/ CreateFatTreeNodes
    \/ CreateTorusNodes
    \/ FatTreeLinkStep
    \/ Torus2DLinkStep
    \/ Torus3DLinkStep
    \/ FatTreeSetupIpAddressing
    \/ TorusSetupIpAddressing
    \/ InstallMpiApplications
    \/ FatTreeScheduleCollectiveOperations
    \/ TorusScheduleCollectiveOperations
    \/ Finish

NIdle ==
    /\ scen = "none" /\ args = NoArgs /\ nstage = "idle"
    /\ shape = NoShape /\ created = NoNodes /\ li = 0
    /\ m_links = <<>> /\ placed = {} /\ addressed = <<>>
    /\ worldSize = 0 /\ sched = <<>>

(***************************************************************************)
(* CorrectnessTests                                                        *)
(***************************************************************************)
WorldRanks == 0 .. (world_size_ - 1)

\* std::vector<double>(size) on every rank: value-initialised to 0.0
Vectors(size) == [r \in WorldRanks |-> Zeros(size)]

\* std::abs(a - b) > tolerance_: tolerance_ is 1e-9 and every buffer value of the
\* tests is a whole number, so the difference exceeds it exactly when it is not 0
ExceedsTolerance(a, b) == a # b

verify_sequentialAnyRank(buffer, size, root) ==
    \A i \in 0 .. (size - 1) : ~ExceedsTolerance(buffer[i + 1], i + 1)

verify_sequential(buffer, size, root) ==
    \A i \in 0 .. (size - 1) : ~ExceedsTolerance(buffer[i + 1], i + root + 1)

verify_reduce_result(native, optimized, size, op) ==
    \A i \in 0 .. (size - 1) : ~ExceedsTolerance(native[i + 1], optimized[i + 1])

\* MPI_Bcast: every rank's buffer becomes the root's
MPI_Bcast(buffers, root) == [r \in WorldRanks |-> buffers[root]]

\* optimize_broadcast delivers the root's buffer to every rank
optimize_broadcast(buffers, root) == [r \in WorldRanks |-> buffers[root]]

RECURSIVE ReduceRanks(_, _, _)
ReduceRanks(op, v, r) ==
    IF r = 0 THEN v[0] ELSE ApplyOp(op, ReduceRanks(op, v, r - 1), v[r])

\* MPI_Reduce: element by element, op over the input of every rank; the root's
\* input under MPI_IN_PLACE is its receive buffer
MPI_Reduce(inputs, size, op) ==
    [i \in 1 .. size |->
        ReduceRanks(op, [r \in WorldRanks |-> inputs[r][i]], world_size_ - 1)]

\* optimize_reduce leaves op over the sendbufs of all ranks at the root
optimize_reduce(inputs, size, op) ==
    [i \in 1 .. size |->
        ReduceRanks(op, [r \in WorldRanks |-> inputs[r][i]], world_size_ - 1)]

NoTest == [idx |-> 0, kind |-> "none", size |-> 0, op |-> "SUM", root |-> 0]

\* roots of test_broadcast_correctness and of test_reduce_correctness, in order
BroadcastRoots == <<0, world_size_ \div 2, world_size_ - 1>>

ReduceRoots == <<0, world_size_ - 1>>

ReduceOps == <<"SUM", "MAX", "MIN", "PROD">>

\* the calls of test_single_broadcast in the order of the loops over sizes and roots
BroadcastTests ==
    [k \in 1 .. (MaxSize * Len(BroadcastRoots)) |->
        [kind |-> "broadcast",
         size |-> ((k - 1) \div Len(BroadcastRoots)) + 1,
         op |-> "SUM",
         root |-> BroadcastRoots[((k - 1) % Len(BroadcastRoots)) + 1]]]

\* the calls of test_single_reduce in the order of the loops over sizes, operations
\* and roots
ReduceTests ==
    [k \in 1 .. (MaxSize * Len(ReduceOps) * Len(ReduceRoots)) |->
        [kind |-> "reduce",
         size |-> ((k - 1) \div (Len(ReduceOps) * Len(ReduceRoots))) + 1,
         op |-> ReduceOps[(((k - 1) \div Len(ReduceRoots)) % Len(ReduceOps)) + 1],
         root |-> ReduceRoots[((k - 1) % Len(ReduceRoots)) + 1]]]

\* run_all_correctness_tests: the broadcast tests, then the reduce tests (the
\* allreduce, allgather and topology-aware tests that follow can only turn a
\* rank's all_passed from true to false and are left out)
Tests == BroadcastTests \o ReduceTests

NextTest ==
    [idx |-> test.idx + 1,
     kind |-> Tests[test.idx + 1].kind,
     size |-> Tests[test.idx + 1].size,
     op |-> Tests[test.idx + 1].op,
     root |-> Tests[test.idx + 1].root]

\* either a run of run_all_correctness_tests is about to start, or one buffer
\* is about to be filled and verified against rank `root`
XInit ==
    /\ world_size_ \in 1 .. MaxWorld
    /\ \/ test = NoTest
       \/ \E s \in 0 .. MaxSize, rt \in WorldRanks :
             test = [idx |-> 0, kind |-> "sequential", size |-> s, op |-> "SUM",
                     root |-> rt]
    /\ tstage = "idle"
    /\ send_buffer = Vectors(test.size)
    /\ recv_buffer = Vectors(test.size)
    /\ native_recv = Vectors(test.size)
    /\ optimized_recv = Vectors(test.size)
    /\ native_correct = [r \in WorldRanks |-> FALSE]
    /\ passed = [r \in WorldRanks |-> TRUE]
    /\ all_passed = [r \in WorldRanks |-> TRUE]
    /\ report = "none"

\* test_single_broadcast up to the native broadcast: the buffers are allocated
\* and the root fills send_buffer
BroadcastEnter ==
    /\ tstage = "idle" /\ test.kind \in {"none", "broadcast"}
    /\ test.idx < Len(Tests) /\ NextTest.kind = "broadcast"
    /\ test' = NextTest
    /\ tstage' = "entered"
    /\ send_buffer' = [r \in WorldRanks |->
                         IF r = NextTest.root
                         THEN InitializeSequential(NextTest.size, NextTest.root)
                         ELSE Zeros(NextTest.size)]
    /\ recv_buffer' = Vectors(NextTest.size)
    /\ UNCHANGED <<world_size_, native_recv, optimized_recv, native_correct, passed,
                   all_passed, report>>
    /\ UNCHANGED notX

\* MPI_Bcast on send_buffer, then native_correct is computed from recv_buffer
BroadcastNative ==
    /\ tstage = "entered" /\ test.kind = "broadcast"
    /\ send_buffer' = MPI_Bcast(send_buffer, test.root)
    /\ native_correct' = [r \in WorldRanks |->
                            verify_sequential(recv_buffer[r], test.size, test.root)]
    /\ tstage' = "native"
    /\ UNCHANGED <<world_size_, test, recv_buffer, native_recv, optimized_recv, passed,
                   all_passed, report>>
    /\ UNCHANGED notX

\* the buffers are reset, optimize_broadcast runs on send_buffer, the result is
\* verified and returned; the caller folds it into all_passed
BroadcastOptimized ==
    /\ tstage = "native" /\ test.kind = "broadcast"
    /\ LET cleared == [r \in WorldRanks |->
                        IF r = test.root
                        THEN InitializeSequential(test.size, test.root)
                        ELSE Zeros(test.size)]
           delivered == optimize_broadcast(cleared, test.root)
           ret == [r \in WorldRanks |->
                     native_correct[r]
                     /\ verify_sequential(delivered[r], test.size, test.root)]
       IN /\ send_buffer' = delivered
          /\ passed' = ret
          /\ all_passed' = [r \in WorldRanks |-> all_passed[r] /\ ret[r]]
    /\ tstage' = "idle"
    /\ UNCHANGED <<world_size_, test, recv_buffer, native_recv, optimized_recv,
                   native_correct, report>>
    /\ UNCHANGED notX

\* test_single_reduce up to the native reduce: the buffers are allocated and
\* every rank fills send_buffer with its own pattern
ReduceEnter ==
    /\ tstage = "idle" /\ test.kind \in {"broadcast", "reduce"}
    /\ test.idx < Len(Tests) /\ NextTest.kind = "reduce"
    /\ test' = NextTest
    /\ tstage' = "entered"
    /\ send_buffer' = [r \in WorldRanks |-> InitializeSequential(NextTest.size, r)]
    /\ native_recv' = Vectors(NextTest.size)
    /\ optimized_recv' = Vectors(NextTest.size)
    /\ UNCHANGED <<world_size_, recv_buffer, native_correct, passed, all_passed,
                   report>>
    /\ UNCHANGED notX

\* MPI_Reduce: the root passes MPI_IN_PLACE and native_recv, the other ranks
\* pass send_buffer
ReduceNative ==
    /\ tstage = "entered" /\ test.kind = "reduce"
    /\ LET inputs == [r \in WorldRanks |->
                         IF r = test.root THEN native_recv[r] ELSE send_buffer[r]]
       IN native_recv' = [native_recv EXCEPT ![test.root] =
                             MPI_Reduce(inputs, test.size, test.op)]
    /\ tstage' = "native"
    /\ UNCHANGED <<world_size_, test, send_buffer, recv_buffer, optimized_recv,
                   native_correct, passed, all_passed, report>>
    /\ UNCHANGED notX

\* send_buffer is filled again, optimize_reduce runs, the root compares the two
\* results and every other rank returns true; the caller folds it into all_passed
ReduceOptimized ==
    /\ tstage = "native" /\ test.kind = "reduce"
    /\ LET refilled == [r \in WorldRanks |-> InitializeSequential(test.size, r)]
           reduced == optimize_reduce(refilled, test.size, test.op)
           ret == [r \in WorldRanks |->
                     IF r = test.root
                     THEN verify_reduce_result(native_recv[r], reduced, test.size,
                                               test.op)
                     ELSE TRUE]
       IN /\ send_buffer' = refilled
          /\ optimized_recv' = [optimized_recv EXCEPT ![test.root] = reduced]
          /\ passed' = ret
          /\ all_passed' = [r \in WorldRanks |-> all_passed[r] /\ ret[r]]
    /\ tstage' = "idle"
    /\ UNCHANGED <<world_size_, test, recv_buffer, native_recv, native_correct,
                   report>>
    /\ UNCHANGED notX

\* the end of run_all_correctness_tests: rank 0 prints its own all_passed
ReportVerdict ==
    /\ tstage = "idle" /\ test.kind = "reduce" /\ test.idx = Len(Tests)
    /\ report' = IF all_passed[0] THEN "ALL CORRECTNESS TESTS PASSED"
                 ELSE "SOME TESTS FAILED"
    /\ tstage' = "reported"
    /\ UNCHANGED <<world_size_, test, send_buffer, recv_buffer, native_recv,
                   optimized_recv, native_correct, passed, all_passed>>
    /\ UNCHANGED notX

\* initialize_sequential(send_buffer, size, rank) on every rank
SequentialFill ==
    /\ tstage = "idle" /\ test.kind = "sequential"
    /\ send_buffer' = [r \in WorldRanks |-> InitializeSequential(test.size, r)]
    /\ tstage' = "filled"
    /\ UNCHANGED <<world_size_, test, recv_buffer, native_recv, optimized_recv,
                   native_correct, passed, all_passed, report>>
    /\ UNCHANGED notX

\* verify_sequential against rank test.root, on the filled buffer of every rank
\* (passed) and on its zero-filled buffer (native_correct)
SequentialVerify ==
    /\ tstage = "filled" /\ test.kind = "sequential"
    /\ passed' = [r \in WorldRanks |->
                    verify_sequential(send_buffer[r], test.size, test.root)]
    /\ native_correct' = [r \in WorldRanks |->
                            verify_sequential(recv_buffer[r], test.size, test.root)]
    /\ tstage' = "verified"
    /\ UNCHANGED <<world_size_, test, send_buffer, recv_buffer, native_recv,
                   optimized_recv, all_passed, report>>
    /\ UNCHANGED notX

XNext ==
    \/ BroadcastEnter
    \/ BroadcastNative
    \/ BroadcastOptimized
    \/ ReduceEnter
    \/ ReduceNative
    \/ ReduceOptimized
    \/ ReportVerdict
    \/ SequentialFill
    \/ SequentialVerify

\* no correctness test is in progress
XIdle ==
    /\ world_size_ = 0 /\ test = NoTest /\ tstage = "idle"
    /\ send_buffer = <<>> /\ recv_buffer = <<>> /\ native_recv = <<>>
    /\ optimized_recv = <<>> /\ native_correct = <<>> /\ passed = <<>>
    /\ all_passed = <<>> /\ report = "none"

Init == MInit /\ CIdle /\ TIdle /\ SIdle /\ NIdle /\ XIdle

Next == MNext

Spec == Init /\ [][Next]_vars

CollInit == CInit /\ MIdle /\ TIdle /\ SIdle /\ NIdle /\ XIdle

CollSpec == CollInit /\ [][CNext]_vars

TimerInit == TInit /\ MIdle /\ CIdle /\ SIdle /\ NIdle /\ XIdle

TimerSpec == TimerInit /\ [][TNext]_vars

StatInit == SInit /\ MIdle /\ CIdle /\ TIdle /\ NIdle /\ XIdle

StatSpec == StatInit /\ [][SNext]_vars

NetInit == NInit /\ MIdle /\ CIdle /\ TIdle /\ SIdle /\ XIdle

NetSpec == NetInit /\ [][NNext]_vars

TestInit == XInit /\ MIdle /\ CIdle /\ TIdle /\ SIdle /\ NIdle

TestSpec == TestInit /\ [][XNext]_vars

CallReturned == alg # "none" /\ phases = <<>>

(***************************************************************************)
(* Properties of the collectives                                           *)
(***************************************************************************)
\* C3: after optimize_broadcast, binomial_tree_broadcast or pipeline_broadcast
\* has returned on all ranks, every rank's buffer equals the root's pre-call buffer.
C3_BroadcastDelivers ==
    (call.kind \in BroadcastKinds /\ CallReturned) =>
        \A r \in CRanks : buf[r] = sendbuf[call.root]

C3_Witness ==
    /\ call.kind = "broadcast" /\ CallReturned
    /\ alg = "scatter_allgather" /\ call.root > 0 /\ call.count >= 2
    /\ buf[0] = InitializeSequential(call.count, call.root)

RECURSIVE OverRanks(_, _, _)
OverRanks(op, v, r) ==
    IF r = 0 THEN v[0] ELSE ApplyOp(op, OverRanks(op, v, r - 1), v[r])

\* C4: after optimize_allreduce has returned, every rank's recvbuf holds, element
\* by element, op applied over the sendbufs of all ranks.
C4_AllreduceResult ==
    (call.kind = "allreduce" /\ CallReturned) =>
        \A r \in CRanks :
            /\ Len(buf[r]) = call.count
            /\ \A i \in 1 .. call.count :
                  buf[r][i] = OverRanks(call.op, [q \in CRanks |-> sendbuf[q][i]],
                                        call.n - 1)

C4_Witness ==
    /\ call.kind = "allreduce" /\ CallReturned
    /\ alg = "ring_allreduce" /\ call.n >= 3 /\ call.count >= 2 /\ call.op = "MAX"
    /\ buf[0][1] = call.n

\* C5: with rank r contributing v[r][i] = i + r + 1, after optimize_reduce has
\* returned element i of the root's recvbuf is op applied over r = 0..N-1 of v[r][i].
C5_ReduceResult ==
    (call.kind = "reduce" /\ CallReturned) =>
        /\ Len(buf[call.root]) = call.count
        /\ \A i \in 1 .. call.count :
              buf[call.root][i] =
                  OverRanks(call.op, [q \in CRanks |-> (i - 1) + q + 1], call.n - 1)

C5_Witness ==
    /\ call.kind = "reduce" /\ CallReturned
    /\ call.op = "PROD" /\ call.root > 0 /\ call.n = 3 /\ call.count >= 2
    /\ buf[call.root][2] = 24

\* C6: after optimize_allgather has returned, every rank's recvbuf has size N*s
\* and its block r equals the sendbuf of rank r.
C6_AllgatherResult ==
    (call.kind = "allgather" /\ CallReturned) =>
        \A r \in CRanks :
            /\ Len(buf[r]) = call.n * call.count
            /\ \A b \in CRanks : \A j \in 1 .. call.count :
                  buf[r][b * call.count + j] = sendbuf[b][j]

C6_Witness ==
    /\ call.kind = "allgather" /\ CallReturned
    /\ alg = "allgather_ring" /\ call.n >= 3 /\ call.count >= 2
    /\ buf[0][call.n * call.count] = sendbuf[call.n - 1][call.count]

(***************************************************************************)
(* Properties of the measurement harness                                   *)
(***************************************************************************)
AllDone == \A r \in Ranks : pc[r] = "done"

ThePair == cur[0]

\* C1: when every rank calls measure_point_to_point_latency / _bandwidth with
\* ra # rb and iters >= 1, the call returns on every rank: no state is reached
\* in which some rank has not returned and no rank can take a step.
C1_P2PAlwaysReturns ==
    fn \in {"latency", "bandwidth"} => (AllDone \/ ENABLED MNext)

\* C2: when every rank calls measure_all_to_all_bandwidth, the call returns on
\* every rank: no state is reached in which some rank is still inside the call
\* and no send, receive or barrier can complete.
C2_AllToAllAlwaysReturns ==
    fn = "alltoall" => (AllDone \/ ENABLED MNext)

\* C7: a rank that is neither ra nor rb issues no send, completes no receive,
\* enters no barrier, and returns 0 from the point-to-point measurement.
C7_OutsiderTakesNoPart ==
    fn \in {"latency", "bandwidth"} =>
        \A r \in Ranks : ~(r = ThePair[1] \/ r = ThePair[2]) =>
            /\ sentCnt[r] = 0 /\ recvCnt[r] = 0 /\ barCnt[r] = 0
            /\ r \notin inBarrier
            /\ pc[r] \in {"call", "ret", "done"}
            /\ result[r] = 0

C7_Witness ==
    /\ fn = "bandwidth"
    /\ \E r \in Ranks : /\ r # ThePair[1] /\ r # ThePair[2] /\ pc[r] = "done"
    /\ barCnt[ThePair[1]] > 0 /\ sentCnt[ThePair[1]] > 0

NoTimedBeforeWarmup(log) ==
    \A j \in 1 .. Len(log), k \in 1 .. Len(log) :
        j < k => ~(log[j].msg.ph = "timed" /\ log[k].msg.ph = "warmup")

\* C8: in ping_pong_latency the second rank replies only after receiving the
\* message of the same iteration, the first rank sends the next message only
\* after the previous reply, warmup exchanges precede timed ones, at most one
\* message is in flight, and none is left when both ranks have returned.
C8_PingPongOrder ==
    fn = "latency" =>
        LET a == ThePair[1]
            b == ThePair[2]
        IN  /\ Len(chan[a][b]) + Len(chan[b][a]) <= 1
            /\ sentCnt[b] <= recvCnt[b]
            /\ sentCnt[a] <= recvCnt[a] + 1
            /\ \A r \in {a, b} : \A k \in 1 .. Len(recvLog[r]) :
                  recvLog[r][k].msg = recvLog[r][k].at
            /\ NoTimedBeforeWarmup(recvLog[a]) /\ NoTimedBeforeWarmup(recvLog[b])
            /\ (pc[a] = "done" /\ pc[b] = "done") =>
                  /\ chan[a][b] = <<>> /\ chan[b][a] = <<>>
                  /\ sentCnt[a] = recvCnt[b] /\ sentCnt[b] = recvCnt[a]

C8_Witness ==
    /\ fn = "latency"
    /\ pc[ThePair[1]] = "done" /\ pc[ThePair[2]] = "done"
    /\ Len(recvLog[ThePair[2]]) = WarmupIters + iters
    /\ recvLog[ThePair[2]][Len(recvLog[ThePair[2]])].msg.ph = "timed"
    /\ recvLog[ThePair[2]][1].msg.ph = "warmup"

UnorderedPairs == {p \in Ranks \X Ranks : p[1] < p[2]}

\* C9: the all-to-all pass invokes the point-to-point measurement at most once
\* per pair, only with src < dst, for every such pair by the time it returns;
\* its matrix is N x N, symmetric and has a zero diagonal.
C9_AllPairsOnceSymmetric ==
    fn = "alltoall" =>
        \A r \in Ranks :
            /\ \A j \in 1 .. Len(calls[r]) :
                  /\ calls[r][j] \in UnorderedPairs
                  /\ \A k \in 1 .. Len(calls[r]) : j # k => calls[r][j] # calls[r][k]
            /\ pc[r] = "done" => {calls[r][j] : j \in 1 .. Len(calls[r])} = UnorderedPairs
            /\ DOMAIN matrix[r] = Ranks
            /\ \A a \in Ranks :
                  /\ DOMAIN matrix[r][a] = Ranks
                  /\ matrix[r][a][a] = 0
                  /\ \A b \in Ranks : matrix[r][a][b] = matrix[r][b][a]

C9_Witness ==
    /\ fn = "alltoall"
    /\ \E r \in Ranks : pc[r] = "done" /\ matrix[r][0][1] # 0

\* C10: in the matrix of rank r every entry of a pair that does not contain r is 0.
C10_ForeignPairsZero ==
    fn = "alltoall" =>
        \A r \in Ranks : \A a \in Ranks : \A b \in Ranks :
            (r # a /\ r # b) => matrix[r][a][b] = 0

C10_Witness ==
    /\ fn = "alltoall"
    /\ \E r \in Ranks :
          /\ Len(calls[r]) >= 2
          /\ r # calls[r][1][1] /\ r # calls[r][1][2]
          /\ \E q \in Ranks : matrix[q][0][1] # 0 \/ barCnt[q] > 0

(***************************************************************************)
(* Properties of the timer                                                 *)
(***************************************************************************)
\* C11: after any sequence of start, stop and reset calls, timings_ holds exactly
\* the sections that completed a start/stop pair since the last reset, each with
\* the summed elapsed time of its pairs; a stop() with no active section changes
\* no value and creates no entry.
C11_OnlyPairsAccumulate == timings_ = pairSum

\* the accumulated value of a section, 0 when it has no entry
Accumulated(t, name) == IF name \in DOMAIN t THEN t[name] ELSE 0

\* a stop() that ends section B, started while section A was still active
StopAfterOverride ==
    /\ lastCall'.op = "stop" /\ tcalls' = tcalls + 1
    /\ lastCall'.name # "" /\ lastCall'.over # ""

\* C27: start(B) while section A is active makes B the only active section and
\* discards A's running interval: the following stop() adds the time since
\* start(B) to B only and leaves A and every other section unchanged;
\* get_elapsed_time of a name that was never stopped returns 0 and adds no entry.
C27_StartOverridesActive ==
    [][/\ StopAfterOverride =>
             /\ lastCall'.name = open[1]
             /\ DOMAIN timings_' = DOMAIN timings_ \cup {open[1]}
             /\ timings_'[open[1]] = Accumulated(timings_, open[1]) + (clock - open[2])
             /\ \A n \in DOMAIN timings_ \ {open[1]} : timings_'[n] = timings_[n]
       /\ lastCall'.op = "get" =>
             /\ timings_' = timings_
             /\ lastCall'.name \notin DOMAIN pairSum => lastCall'.ret = 0
      ]_vars

C27_Witness ==
    /\ lastCall.op = "stop" /\ lastCall.name = "comp" /\ lastCall.over = "comm"
    /\ start_time_ = 2 /\ clock = 3
    /\ timings_ = ("comp" :> 1)

(***************************************************************************)
(* Properties of the outlier filter                                        *)
(***************************************************************************)
\* twice the Tukey fences written from their definition: q1 - k*iqr and q3 + k*iqr
\* with q1 = s[n/4], q3 = s[3n/4] of the sorted samples s, iqr = q3 - q1, k in halves
TukeyFences(smp, k) ==
    LET s == SortSamples(smp)
        n == Len(smp)
        q1 == s[(n \div 4) + 1]
        q3 == s[((3 * n) \div 4) + 1]
    IN  [lo |-> 2 * q1 - k * (q3 - q1), hi |-> 2 * q3 + k * (q3 - q1)]

Outside(smp, k) ==
    LET f == TukeyFences(smp, k)
    IN  SelectSeq(smp, LAMBDA x : 2 * x < f.lo \/ 2 * x > f.hi)

Within(smp, k) ==
    LET f == TukeyFences(smp, k)
    IN  SelectSeq(smp, LAMBDA x : ~(2 * x < f.lo \/ 2 * x > f.hi))

\* sub is obtained from s by deleting elements
RECURSIVE IsSubseq(_, _)
IsSubseq(sub, s) ==
    IF sub = <<>> THEN TRUE
    ELSE IF s = <<>> THEN FALSE
    ELSE IF Head(sub) = Head(s) THEN IsSubseq(Tail(sub), Tail(s))
    ELSE IsSubseq(sub, Tail(s))

\* C12: remove_outliers(k), k >= 0, returns true exactly when some sample lies
\* outside the Tukey fences of the current sample set; then the sample set becomes
\* the samples inside the fences in their original order; when it returns false
\* the sample set is unchanged.
C12_RemoveOutliersResult ==
    lastOp.op = "remove" =>
        /\ lastOp.ret <=> (lastOp.pre # <<>> /\ Outside(lastOp.pre, lastOp.k) # <<>>)
        /\ lastOp.ret => samples_ = Within(lastOp.pre, lastOp.k)
        /\ ~lastOp.ret => samples_ = lastOp.pre

C12_Witness ==
    /\ lastOp.op = "remove" /\ lastOp.ret /\ lastOp.k = 3
    /\ Len(samples_) >= 4 /\ Len(samples_) < Len(lastOp.pre)
    /\ Outside(lastOp.pre, 3) # <<>>
    /\ lastOp.pre[Len(lastOp.pre)] = samples_[Len(samples_)]

\* C13 as stated: once remove_outliers(k) has returned true, the next call to
\* remove_outliers(k) returns false and leaves the sample set unchanged.
C13_SecondPassIsNoOp ==
    (lastOp.op = "remove" /\ lastOp.prev = "true")
        => (~lastOp.ret /\ samples_ = lastOp.pre)

\* C13 amended: a call to remove_outliers(k) that returns true removes at least
\* one sample and only samples; once a call has returned false, the next call
\* with the same k returns false and leaves the sample set unchanged.  (The call
\* after one that returned true may return true again.)
C13_PassesShrinkUntilFalse ==
    lastOp.op = "remove" =>
        /\ lastOp.ret => /\ Len(samples_) < Len(lastOp.pre)
                         /\ IsSubseq(samples_, lastOp.pre)
        /\ lastOp.prev = "false" => (~lastOp.ret /\ samples_ = lastOp.pre)

C13_Witness ==
    /\ lastOp.op = "remove" /\ lastOp.prev = "true" /\ lastOp.k = 3 /\ lastOp.ret
    /\ Len(samples_) < Len(lastOp.pre)

\* C14: for a sample set of n >= 4 values, detect_outliers(k) returns exactly the
\* samples x with x < q1 - k*iqr or x > q3 + k*iqr (q1 = s[n/4], q3 = s[3n/4] of
\* the sorted samples, iqr = q3 - q1), in insertion order, and does not modify
\* the sample set.
C14_DetectOutliersResult ==
    (lastOp.op = "detect" /\ Len(lastOp.pre) >= 4) =>
        /\ lastOp.out = Outside(lastOp.pre, lastOp.k)
        /\ samples_ = lastOp.pre

C14_Witness ==
    /\ lastOp.op = "detect" /\ Len(lastOp.pre) >= MaxSamples
    /\ Len(lastOp.out) = 2 /\ lastOp.out[1] > lastOp.out[2]
    /\ samples_ = lastOp.pre

\* the number is 0 (and not the outcome of 0 / 0)
IsZero(v) == v.num = 0 /\ v.den # 0

\* C22: the analyzer does not fail on a degenerate sample set: on an empty set
\* mean, median, min and max return 0; with at most one sample standard
\* deviation, variance and confidence half-width return 0; with fewer than 4
\* samples detect_outliers returns nothing and remove_outliers returns false; for
\* n >= 4 the quartile indices n/4 and 3n/4 are inside the sorted sample.
C22_DegenerateSampleSets ==
    LET n == Len(lastOp.pre)
    IN  /\ lastOp.op \in StatisticNames => lastOp.val.den # 0
        /\ (lastOp.op \in {"mean", "median", "min", "max"} /\ n = 0)
              => IsZero(lastOp.val)
        /\ (lastOp.op \in {"standard_deviation", "variance", "confidence_interval"}
               /\ n <= 1) => IsZero(lastOp.val)
        /\ (lastOp.op = "detect" /\ n < 4) => lastOp.out = <<>>
        /\ (lastOp.op = "remove" /\ n < 4) => (~lastOp.ret /\ samples_ = lastOp.pre)
        /\ (lastOp.op \in {"detect", "remove"} /\ n >= 4)
              => (Q1Index(n) \in 0 .. (n - 1) /\ Q3Index(n) \in 0 .. (n - 1))

C22_Witness ==
    /\ lastOp.op = "confidence_interval" /\ lastOp.pre = <<3>>
    /\ IsZero(lastOp.val) /\ samples_ = <<3>>

\* C28: for a non-empty sample set and a threshold k >= 0, remove_outliers(k)
\* leaves at least one sample: the two quartile samples lie inside the fences.
C28_RemoveLeavesASample ==
    (lastOp.op = "remove" /\ lastOp.pre # <<>>) =>
        /\ samples_ # <<>>
        /\ LET s == SortSamples(lastOp.pre)
               n == Len(s)
           IN  \A q \in {s[(n \div 4) + 1], s[((3 * n) \div 4) + 1]} :
                   \E i \in 1 .. Len(samples_) : samples_[i] = q

C28_Witness ==
    /\ lastOp.op = "remove" /\ lastOp.ret /\ lastOp.k = 0
    /\ Len(lastOp.pre) = 5 /\ Len(samples_) = 3

(***************************************************************************)
(* Properties of the network scenarios                                     *)
(***************************************************************************)
\* the topology has been built: RunSimulation is past Create...Topology
Built == nstage \in {"install", "schedule", "run", "done"}

LinkIdx == 1 .. Len(m_links)

Ends(l) == {l.a, l.b}

\* the nodes linked to node n
Adjacent(n) ==
    {m_links[i].b : i \in {j \in LinkIdx : m_links[j].a = n}}
        \cup {m_links[i].a : i \in {j \in LinkIdx : m_links[j].b = n}}

\* number of links on a shortest path from the frontier to target (-1: none)
RECURSIVE Hops(_, _, _, _, _)
Hops(adj, frontier, seen, target, d) ==
    IF target \in frontier THEN d
    ELSE LET next == (UNION {adj[n] : n \in frontier}) \ seen
         IN  IF next = {} THEN -1
             ELSE Hops(adj, next, seen \cup next, target, d + 1)

\* the torus the scenario is asked for: extents and row-major coordinates
Extent == <<shape.dimX, shape.dimY, IF shape.is3D THEN shape.dimZ ELSE 1>>

TorusNodes == 0 .. (Extent[1] * Extent[2] * Extent[3] - 1)

Coord(n) ==
    <<n % Extent[1], (n \div Extent[1]) % Extent[2], n \div (Extent[1] * Extent[2])>>

\* min(|d|, D - |d|)
WrapDistance(a, b, D) ==
    LET d == IF a < b THEN b - a ELSE a - b
    IN  IF d < D - d THEN d ELSE D - d

TorusDistance(n1, n2) ==
    WrapDistance(Coord(n1)[1], Coord(n2)[1], Extent[1])
        + WrapDistance(Coord(n1)[2], Coord(n2)[2], Extent[2])
        + WrapDistance(Coord(n1)[3], Coord(n2)[3], Extent[3])

\* C15: for torus dimensions >= 1 the links built are exactly one link for each
\* unordered pair of distinct nodes that are neighbours in some dimension with
\* wrap-around: no self-loop, no duplicate, and the last node of every row,
\* column or pillar is linked to the node at coordinate 0.
C15_TorusLinks ==
    (scen = "torus" /\ Built /\ shape.dimX >= 1 /\ shape.dimY >= 1) =>
        /\ \A i \in LinkIdx : m_links[i].a # m_links[i].b
        /\ \A i, j \in LinkIdx : i # j => Ends(m_links[i]) # Ends(m_links[j])
        /\ {Ends(m_links[i]) : i \in LinkIdx}
              = {{<<"node", n1>>, <<"node", n2>>} :
                    <<n1, n2>> \in {p \in TorusNodes \X TorusNodes :
                                       TorusDistance(p[1], p[2]) = 1}}

\* C16: for every pair of torus nodes, the length of a shortest path in the built
\* link graph equals the Manhattan distance with per-dimension wrap, the sum over
\* dimensions of min(|d_i|, D_i - |d_i|), node index and coordinates row-major.
C16_TorusShortestPaths ==
    (scen = "torus" /\ Built) =>
        LET adj == [n \in TorusNodes |-> {m[2] : m \in Adjacent(<<"node", n>>)}]
        IN  \A n1, n2 \in TorusNodes :
                Hops(adj, {n1}, {n1}, n2, 0) = TorusDistance(n1, n2)

\* half of the fat-tree parameter
Half == shape.k \div 2

ComputeIds == {<<"compute", i>> : i \in 0 .. (created.compute - 1)}

EdgeIds == {<<"edge", i>> : i \in 0 .. (created.edge - 1)}

AggIds == {<<"aggregation", i>> : i \in 0 .. (created.aggregation - 1)}

CoreIds == {<<"core", i>> : i \in 0 .. (created.core - 1)}

\* the pod of an edge or aggregation switch: switches are numbered pod by pod
PodOf(sw) == sw[2] \div Half

\* number of links between nodes a and b
LinksBetween(a, b) == Cardinality({i \in LinkIdx : Ends(m_links[i]) = {a, b}})

\* C17: for even k >= 2 and two distinct compute nodes of the built fat-tree, a
\* shortest path has 2 links if they hang off the same edge switch, 4 if they are
\* in the same pod under different edge switches, and 6 otherwise.
C17_FatTreeDistances ==
    (scen = "fat_tree" /\ Built /\ shape.k >= 2) =>
        LET all == ComputeIds \cup EdgeIds \cup AggIds \cup CoreIds
            adj == [n \in all |-> Adjacent(n)]
        IN  \A c1, c2 \in ComputeIds :
               c1 # c2 =>
                  Hops(adj, {c1}, {c1}, c2, 0) =
                     IF adj[c1] \cap adj[c2] # {} THEN 2
                     ELSE IF \E e1 \in adj[c1], e2 \in adj[c2] : PodOf(e1) = PodOf(e2)
                          THEN 4
                          ELSE 6

C17_Witness ==
    /\ scen = "fat_tree" /\ nstage = "done" /\ shape.k = 4
    /\ LET all == ComputeIds \cup EdgeIds \cup AggIds \cup CoreIds
           adj == [n \in all |-> Adjacent(n)]
       IN  /\ Hops(adj, {<<"compute", 0>>}, {<<"compute", 0>>}, <<"compute", 1>>, 0) = 2
           /\ Hops(adj, {<<"compute", 0>>}, {<<"compute", 0>>}, <<"compute", 2>>, 0) = 4
           /\ Hops(adj, {<<"compute", 0>>}, {<<"compute", 0>>}, <<"compute", 15>>, 0) = 6

\* C18: for even k >= 2 the fat-tree has k pods of k/2 edge and k/2 aggregation
\* switches, k/2 compute nodes per edge switch and (k/2)^2 core switches; every
\* compute node is linked to exactly one edge switch, every edge switch to all
\* k/2 aggregation switches of its own pod and to none of another pod, and every
\* core switch to exactly one aggregation switch in each of the k pods.
C18_FatTreeStructure ==
    (scen = "fat_tree" /\ Built /\ shape.k >= 2) =>
        /\ created.edge = shape.k * Half /\ created.aggregation = shape.k * Half
        /\ created.compute = shape.k * Half * Half /\ created.core = Half * Half
        /\ \A c \in ComputeIds :
              /\ Cardinality({i \in LinkIdx : c \in Ends(m_links[i])}) = 1
              /\ Adjacent(c) \subseteq EdgeIds
        /\ \A e \in EdgeIds :
              /\ Cardinality(Adjacent(e) \cap ComputeIds) = Half
              /\ Adjacent(e) \cap AggIds = {a \in AggIds : PodOf(a) = PodOf(e)}
              /\ Cardinality(Adjacent(e) \cap AggIds) = Half
              /\ \A a \in AggIds : LinksBetween(e, a) <= 1
        /\ \A x \in CoreIds : \A pod \in 0 .. (shape.k - 1) :
              /\ Cardinality({a \in Adjacent(x) : PodOf(a) = pod}) = 1
              /\ \A a \in Adjacent(x) : a \in AggIds /\ LinksBetween(x, a) = 1

C18_Witness ==
    /\ scen = "fat_tree" /\ nstage = "done" /\ shape.k = 4
    /\ Len(m_links) = 48
    /\ Adjacent(<<"core", 3>>) = {<<"aggregation", 1>>, <<"aggregation", 3>>,
                                  <<"aggregation", 5>>, <<"aggregation", 7>>}

\* coordinate tuples of the shape
FatTreeTuples == (0 .. (shape.k - 1)) \X (0 .. (Half - 1)) \X (0 .. (Half - 1))

TorusTuples ==
    IF shape.is3D
    THEN (0 .. (shape.dimX - 1)) \X (0 .. (shape.dimY - 1)) \X (0 .. (shape.dimZ - 1))
    ELSE (0 .. (shape.dimX - 1)) \X (0 .. (shape.dimY - 1))

\* C19: the node index computed from a coordinate tuple (pod*(k/2)^2 + edge*(k/2)
\* + slot in the fat-tree, y*dimX + x or z*dimX*dimY + y*dimX + x in the torus) is
\* a bijection from the coordinate tuples of the shape onto 0..N-1.
C19_IndexBijection ==
    Built =>
        LET tuples == IF scen = "fat_tree" THEN FatTreeTuples ELSE TorusTuples
            n == IF scen = "fat_tree" THEN created.compute ELSE created.all
        IN  /\ {p[1] : p \in placed} = tuples
            /\ {p[2] : p \in placed} = 0 .. (n - 1)
            /\ \A p, q \in placed : (p[1] = q[1]) <=> (p[2] = q[2])
            /\ \A p \in placed :
                  p[2] = IF scen = "fat_tree"
                         THEN p[1][1] * Half * Half + p[1][2] * Half + p[1][3]
                         ELSE IF shape.is3D
                         THEN p[1][3] * shape.dimX * shape.dimY + p[1][2] * shape.dimX
                              + p[1][1]
                         ELSE p[1][2] * shape.dimX + p[1][1]

C19_Witness ==
    /\ nstage = "done"
    /\ \/ scen = "fat_tree" /\ shape.k = 4 /\ <<<<3, 1, 0>>, 14>> \in placed
       \/ scen = "torus" /\ shape.is3D /\ shape.dimX = 3 /\ shape.dimY = 2
             /\ <<<<2, 1, 1>>, 11>> \in placed

\* the shapes the scenarios must refuse
InvalidShape ==
    \/ scen = "fat_tree" /\ args.k % 2 # 0
    \/ scen = "torus" /\ (args.x = 0 \/ args.y = 0)

\* C20: an invalid shape (fat-tree with odd k, torus with a dimension equal to 0)
\* is rejected as a fatal error before any node is created and before any
\* collective operation is scheduled.
C20_InvalidShapeRejected ==
    InvalidShape =>
        /\ nstage \in {"main", "rejected"}
        /\ created = NoNodes
        /\ sched = <<>>

\* the tier of a fat-tree link: 1 compute-edge, 2 edge-aggregation, 3 aggregation-core
TierOf(l) ==
    IF l.a[1] = "compute" THEN 1 ELSE IF l.a[1] = "edge" THEN 2 ELSE 3

\* C21 as stated: from the innermost to the outermost tier of the fat-tree the
\* per-hop latency is non-decreasing and the bandwidth is non-increasing.
C21_OuterTiersNoFaster ==
    (scen = "fat_tree" /\ Built) =>
        \A i, j \in LinkIdx :
            TierOf(m_links[i]) <= TierOf(m_links[j]) =>
                /\ m_links[i].delay <= m_links[j].delay
                /\ m_links[i].rate >= m_links[j].rate

\* C21 amended: from the innermost to the outermost tier the per-hop latency is
\* non-decreasing (1, 2, 5 microseconds) and the bandwidth is non-decreasing too
\* (10, 40, 40 Gbps): the switch tiers are faster than the compute-edge links.
C21_TierParametersMonotone ==
    (scen = "fat_tree" /\ Built) =>
        \A i, j \in LinkIdx :
            TierOf(m_links[i]) <= TierOf(m_links[j]) =>
                /\ m_links[i].delay <= m_links[j].delay
                /\ m_links[i].rate <= m_links[j].rate

C21_Witness ==
    /\ scen = "fat_tree" /\ nstage = "done" /\ shape.k = 4
    /\ {TierOf(m_links[i]) : i \in LinkIdx} = {1, 2, 3}
    /\ \E i, j \in LinkIdx :
          /\ TierOf(m_links[i]) = 1 /\ TierOf(m_links[j]) = 3
          /\ m_links[i].rate < m_links[j].rate /\ m_links[i].delay < m_links[j].delay

\* a shape the scenarios accept: fat-tree with even k >= 2, torus with
\* dimensions >= 1
AcceptedShape ==
    \/ scen = "fat_tree" /\ args.k % 2 = 0 /\ args.k >= 2
    \/ scen = "torus" /\ args.x >= 1 /\ args.y >= 1

BroadcastOps == {i \in 1 .. Len(sched) : sched[i].op \in {"broadcast", "topology_broadcast"}}

\* C29: for every accepted shape, every broadcast root that
\* ScheduleCollectiveOperations schedules is a rank in [0, N), N the number of
\* nodes an MPI application was installed on.
C29_BroadcastRootsInRange ==
    (AcceptedShape /\ nstage \in {"run", "done"}) =>
        \A i \in BroadcastOps : sched[i].root \in 0 .. (worldSize - 1)

C29_Witness ==
    /\ scen = "torus" /\ nstage = "run" /\ shape.is3D /\ worldSize = 12
    /\ \E i \in BroadcastOps : sched[i].root = worldSize - 1
    /\ \E i \in BroadcastOps : sched[i].op = "topology_broadcast" /\ sched[i].root = 6

\* C30: after SetupIpAddressing has run, every link the topology builder created
\* has been assigned an IP network exactly once, in the fat-tree scenario
\* (all three tiers) as in the torus scenario.
C30_EveryLinkAddressedOnce ==
    Built =>
        \A l \in 0 .. (Len(m_links) - 1) :
            Cardinality({i \in 1 .. Len(addressed) : addressed[i] = l}) = 1

(***************************************************************************)
(* Properties of the correctness tests                                     *)
(***************************************************************************)
\* C23: verify_sequential(v, s, r) returns true on a buffer just filled by
\* initialize_sequential(v, s, r) for every size s >= 0; for s >= 1 it returns
\* false on that buffer when asked for another rank r' # r, and false on a
\* zero-filled buffer.
C23_SequentialRoundTrip ==
    (test.kind = "sequential" /\ tstage = "verified") =>
        \A r \in WorldRanks :
            /\ r = test.root => passed[r]
            /\ (test.size >= 1 /\ r # test.root) => ~passed[r]
            /\ test.size >= 1 => ~native_correct[r]
            /\ test.size = 0 => passed[r] /\ native_correct[r]

C23_Witness ==
    /\ test.kind = "sequential" /\ tstage = "verified"
    /\ world_size_ = 3 /\ test.size = 2 /\ test.root = 1
    /\ send_buffer[1] = <<2, 3>>
    /\ passed = [r \in WorldRanks |-> r = 1]

\* a test_single_broadcast call has returned and every rank holds the root's
\* initialised buffer
BroadcastDelivered ==
    /\ test.kind = "broadcast" /\ tstage = "idle"
    /\ \A r \in WorldRanks :
          send_buffer[r] = InitializeSequential(test.size, test.root)

\* C24: test_single_broadcast returns true on every rank whenever the native and
\* the optimized broadcast both delivered the root's initialised buffer to every
\* rank, for every size >= 1 and root.
C24_BroadcastTestPasses ==
    BroadcastDelivered => \A r \in WorldRanks : passed[r]

\* op over r = 0..N-1 of v[r][i] = i + r + 1, for i in [0, size)
ReductionOverAllRanks ==
    [i \in 1 .. test.size |->
        ReduceRanks(test.op, [q \in WorldRanks |-> (i - 1) + q + 1], world_size_ - 1)]

\* C25: in test_single_reduce the native reference at the root is op over all N
\* ranks, the root included, of v[r][i] = i + r + 1, so that an optimize_reduce
\* computing that reduction passes the comparison at the root for every op, size
\* and root.
C25_NativeReferenceCoversRoot ==
    (test.kind = "reduce" /\ tstage = "idle") =>
        /\ optimized_recv[test.root] = ReductionOverAllRanks
           => native_recv[test.root] = ReductionOverAllRanks
        /\ optimized_recv[test.root] = ReductionOverAllRanks => passed[test.root]

====
